---- MODULE Spec2Model ----
(***************************************************************************)
(* Verification model of lsst-ts/ts_ess_common.                            *)
(*                                                                         *)
(* The components are modelled each with its own specification:            *)
(*   SpecDC   ControllerDataClient running BaseReadLoopDataClient.run      *)
(*   SpecDev  BaseDevice (the device supervisor): open, _run, close        *)
(*   SpecDevFair  the same with the read task and open() scheduled fairly  *)
(*   SpecCH   SocketServer.read_loop with AbstractCommandHandler           *)
(*   SpecLd   Ld250Processor                                               *)
(*   SpecRL   BaseReadLoopDataClient.run with the time of its rate limit   *)
(*   SpecAcc  AirFlowAccumulator                                           *)
(*   SpecSn   the decoders Csat3bSensor and WindsonicSensor                *)
(*   SpecSg   SiglentSSA3000xSpectrumAnalyzerDataClient                    *)
(*   SpecBd   BaseDataClient.start_tasks and stop_tasks                    *)
(*   SpecReg  the data client class registry                               *)
(*   SpecOp   BaseDevice.open() called in any state of the device          *)
(*   SpecWr   SocketServer.write called by concurrent tasks                *)
(*   SpecTc   TcpipDataClient running BaseReadLoopDataClient.run           *)
(*   SpecLt   Ld250Processor with the time of its safe interval            *)
(*   SpecLk   ControllerDataClient.stream_lock with read_data and          *)
(*            run_command in two tasks                                     *)
(*   SpecEv   Ld250Processor and Efm100cProcessor, the two processors      *)
(*            with a safe interval                                         *)
(*                                                                         *)
(* asyncio is modelled as cooperative scheduling: a task is always at one  *)
(* of its suspension points (an await that really waits), and one action   *)
(* of the model runs a task from one suspension point to the next.         *)
(* Task.cancel() marks the task; the CancelledError is raised at the await *)
(* the task is suspended in, which then cannot complete normally.          *)
(***************************************************************************)
EXTENDS Integers, Sequences, FiniteSets, TLC

VARIABLES
    \* ---- BaseReadLoopDataClient / ControllerDataClient
    dc_pc,              \* suspension point of run_task
    dc_max,             \* self.max_read_timeouts (configuration)
    dc_loop_should_end, \* self.loop_should_end
    dc_num_timeouts,    \* self.num_consecutive_read_timeouts
    dc_timeout_event,   \* self.timeout_event.is_set()
    dc_connected,       \* self.connected
    dc_exc,             \* exception pending while a finally clause awaits
    dc_cancel_req,      \* run_task.cancel() called, CancelledError not yet raised
    dc_lock,            \* holder of self.stream_lock
    dc_stop_pc,         \* position of a caller inside stop()
    dc_stop_elapsed,    \* seconds the caller has spent inside stop()
    dc_connects,        \* history: number of connect() calls of run_task
    dc_reads,           \* history: number of read_data() calls of run_task
    dc_next_id,         \* id of the next frame the controller sends
    dc_cmd_frames,      \* history: telemetry frames read while a command was outstanding
    dc_handled,         \* history: frame id -> number of process_telemetry calls
    dc_last_frame,      \* history: kind of the frame the last read_data read
    \* ---- BaseDevice
    dev_pc,             \* suspension point of the _telemetry_loop task (_run)
    dev_loop_should_end,\* self.loop_should_end
    dev_is_open,        \* self.is_open
    dev_open_event,     \* self.open_event.is_set()
    dev_in_error_state, \* self.in_error_state
    dev_transport,      \* the port behind basic_open/basic_close: "open" or "closed"
    dev_cancel_req,     \* _telemetry_loop.cancel() called, CancelledError not yet raised
    dev_line,           \* the line being decoded and delivered: [id, kind]
    dev_response,       \* the response code of the reading being built
    dev_open_pc,        \* position of a caller inside open()
    dev_close_pc,       \* position of a caller inside close()
    dev_wire_next,      \* id of the next line the sensor sends
    dev_delivered,      \* history: the readings passed to the callback, in order
    dev_opens,          \* history: number of open() calls
    dev_sensor,         \* self.sensor: the kind of decoder the device was given
    dev_caught,         \* history: what the last readline() raised, "none" if it returned
    \* ---- SocketServer / AbstractCommandHandler
    srv_running,        \* the server is serving (exit not yet handled)
    srv_connected,      \* self.connected
    srv_loop,           \* state of read_loop_task
    srv_out,            \* frames written to the connected client, in order
    ch_configuration,   \* self._configuration
    ch_started,         \* self._started
    ch_devices,         \* self._devices: ids of the devices, in order
    ch_open,            \* ids of the devices whose open() returned and that were not closed
    ch_next_dev,        \* id of the next device get_device creates
    ch_last,            \* history: number and name of the last command read
    \* ---- Ld250Processor
    ld_timer,           \* state of self.strike_timer_task
    ld_frames,          \* history: number of process_telemetry calls
    ld_log,             \* history: the set_write calls, in order
    ld_last,            \* history: what the reading of the last process_telemetry call was
    ld_raised,          \* history: what that call raised, "none" if it returned
    \* ---- BaseReadLoopDataClient.run with the time of its rate limit
    rl_pc,              \* where the run task is suspended
    rl_cfg,             \* config.rate_limit, in hundredths of a second
    rl_rate_limit,      \* self.rate_limit
    rl_timer,           \* time left of the sleep of rate_limit_task; 0: the task is done
    rl_exc,             \* exception pending in a finally clause
    rl_loop_should_end, \* self.loop_should_end
    rl_connected,       \* self.connected
    rl_num_timeouts,    \* self.num_consecutive_read_timeouts
    rl_cancel_req,      \* run_task.cancel() was called and not yet delivered
    rl_stop_pc,         \* where stop() is suspended
    rl_call_age,        \* history: time since read_data was last called
    rl_succ_age,        \* history: time since the last read_data that returned was called
    rl_prev,            \* history: rl_succ_age when read_data was last called
    rl_last_gap,        \* history: time between the calls of the last two read_data that returned
    \* ---- AirFlowAccumulator
    acc_num_samples,    \* self.num_samples
    acc_timestamp,      \* self.timestamp; speed and direction have the same length
    acc_num_bad_samples, \* self.num_bad_samples
    acc_result,         \* what the last get_topic_kwargs call returned or raised
    acc_adds,           \* history: number of add_sample calls
    acc_gets,           \* history: number of get_topic_kwargs calls
    \* ---- Sensor decoders: Csat3bSensor and WindsonicSensor
    sn_sensor,          \* the decoder: "Csat3b" or "Windsonic"
    sn_line,            \* the line handed to extract_telemetry, a sequence of byte values
    sn_mask,            \* history: the mask XORed into one byte of the frame, 0 for none
    sn_output,          \* what extract_telemetry returned or raised
    \* ---- SiglentSSA3000xSpectrumAnalyzerDataClient
    sg_pc,              \* "idle": not connected, "reading": in the read loop, "failed": read_data raised
    sg_have_seen_data,  \* self._have_seen_data
    sg_written,         \* number of tel_spectrumAnalyzer samples written
    sg_last,            \* history: the last reply: its number since the connect, its length, what read_data did
    sg_connects,        \* history: number of connect() calls
    \* ---- BaseDataClient with start_tasks and stop_tasks
    bd_kind,            \* the subclass: "Mock" (MockDataClient) or "ReadLoop" (the read loop client of common/)
    bd_connect_raises,  \* connect_exception is set
    bd_disconnect_raises, \* disconnect_exception is set
    bd_connected,       \* self.connected
    bd_run,             \* self.run_task: "done" or "running"
    bd_cancel_req,      \* run_task.cancel() was called and not yet delivered
    bd_start_pc,        \* where start() is suspended, or how it ended
    bd_stop_pc,         \* where stop() is suspended, or "returned"
    bd_stop_running,    \* history: the run task was running when stop() was last called
    bd_calls,           \* history: number of start() and stop() calls
    \* ---- the data client class registry
    reg_defined,        \* the data client classes whose class statement has run
    reg_registry,       \* the keys of _DataClientClassRegistry
    reg_result,         \* the last get_data_client_class call: its argument and outcome
    reg_gets,           \* history: number of get_data_client_class calls
    \* ---- BaseDevice.open() called in any state
    op_is_open,         \* self.is_open
    op_loop_should_end, \* self.loop_should_end
    op_open_event,      \* self.open_event.is_set()
    op_tasks,           \* the _run tasks in the order open() created them; the last is self._telemetry_loop
    op_cancel_req,      \* _telemetry_loop.cancel() called, CancelledError not yet raised
    op_calls,           \* the open() calls: was the device open at the call, and where the call is
    op_close_pc,        \* position of a caller inside close()
    \* ---- SocketServer.write called by concurrent tasks
    wr_connected,       \* self.connected
    wr_pc,              \* per task: the frame its write() call is writing (0: not in write()) and the next chunk
    wr_wire,            \* the bytes handed to the StreamWriter, in order
    wr_next,            \* id of the next frame a task writes
    \* ---- Efm100cProcessor
    ef_timer,           \* state of self.high_electric_field_timer_task
    ef_frames,          \* history: number of process_telemetry calls
    ef_log,             \* history: the set_write calls, in order
    \* ---- TcpipDataClient running BaseReadLoopDataClient.run
    tc_pc,              \* suspension point of run_task
    tc_loop_should_end, \* self.loop_should_end
    tc_connected,       \* self.connected
    tc_num_timeouts,    \* self.num_consecutive_read_timeouts
    tc_exc,             \* exception pending while a finally clause awaits
    tc_cancel_req,      \* run_task.cancel() called, CancelledError not yet raised
    tc_connects,        \* history: number of connect() calls of run_task
    tc_reads,           \* history: number of read_data() calls of run_task
    tc_cancelled_at,    \* history: where the CancelledError was raised in run_task
    tc_timeout_event,   \* self.timeout_event.is_set()
    tc_fails,           \* history: failed passes since the last read_data that returned
    \* ---- Ld250Processor with the time of its safe interval
    lt_safe_interval,   \* device_configuration.safe_interval, in seconds
    lt_timer,           \* state of self.strike_timer_task
    lt_timer_age,       \* seconds the current strike_timer_task has been sleeping
    lt_strike_age,      \* history: <<seconds since the most recent strike frame>>
    lt_frames,          \* history: number of process_telemetry calls
    lt_log,             \* history: the set_write calls, in order
    \* ---- ControllerDataClient.stream_lock: read_data and run_command in two tasks
    lk_holder,          \* the task that holds self.stream_lock
    lk_connected,       \* self.connected
    lk_reader_pc,       \* suspension point of the task in read_data
    lk_cmd_pc,          \* suspension point of the task in run_command
    lk_cmd_end,         \* how the last run_command ended
    lk_reader_frames,   \* history: frames read by read_data
    lk_cmd_frames,      \* history: frames read by _basic_run_command
    lk_cmds             \* history: number of run_command calls

dcVars == <<dc_pc, dc_max, dc_loop_should_end, dc_num_timeouts, dc_timeout_event,
            dc_connected, dc_exc, dc_cancel_req, dc_lock, dc_stop_pc,
            dc_stop_elapsed, dc_connects, dc_reads, dc_next_id, dc_cmd_frames,
            dc_handled, dc_last_frame>>

devVars == <<dev_pc, dev_loop_should_end, dev_is_open, dev_open_event,
             dev_in_error_state, dev_transport, dev_cancel_req, dev_line, dev_response,
             dev_open_pc, dev_close_pc, dev_wire_next, dev_delivered, dev_opens,
             dev_sensor, dev_caught>>

chVars == <<srv_running, srv_connected, srv_loop, srv_out, ch_configuration,
            ch_started, ch_devices, ch_open, ch_next_dev, ch_last>>

ldVars == <<ld_timer, ld_frames, ld_log, ld_last, ld_raised>>

rlVars == <<rl_pc, rl_cfg, rl_rate_limit, rl_timer, rl_exc,
            rl_loop_should_end, rl_connected, rl_num_timeouts, rl_cancel_req,
            rl_stop_pc, rl_call_age, rl_succ_age, rl_prev, rl_last_gap>>

accVars == <<acc_num_samples, acc_timestamp, acc_num_bad_samples, acc_result,
             acc_adds, acc_gets>>

snVars == <<sn_sensor, sn_line, sn_mask, sn_output>>

sgVars == <<sg_pc, sg_have_seen_data, sg_written, sg_last, sg_connects>>

bdVars == <<bd_kind, bd_connect_raises, bd_disconnect_raises, bd_connected,
            bd_run, bd_cancel_req, bd_start_pc, bd_stop_pc, bd_stop_running,
            bd_calls>>

regVars == <<reg_defined, reg_registry, reg_result, reg_gets>>

opVars == <<op_is_open, op_loop_should_end, op_open_event, op_tasks,
            op_cancel_req, op_calls, op_close_pc>>

wrVars == <<wr_connected, wr_pc, wr_wire, wr_next>>

efVars == <<ef_timer, ef_frames, ef_log>>

tcVars == <<tc_pc, tc_loop_should_end, tc_connected, tc_num_timeouts, tc_exc,
            tc_cancel_req, tc_connects, tc_reads, tc_cancelled_at,
            tc_timeout_event, tc_fails>>

ltVars == <<lt_safe_interval, lt_timer, lt_timer_age, lt_strike_age,
            lt_frames, lt_log>>

lkVars == <<lk_holder, lk_connected, lk_reader_pc, lk_cmd_pc, lk_cmd_end,
            lk_reader_frames, lk_cmd_frames, lk_cmds>>

extVars == <<rlVars, accVars, snVars, sgVars, bdVars, regVars, opVars, wrVars, efVars, tcVars, ltVars, lkVars>>

vars == <<dcVars, devVars, chVars, ldVars, extVars>>

\* The variables of the components a specification leaves alone.
nonDC == <<devVars, chVars, ldVars, extVars>>
nonDev == <<dcVars, chVars, ldVars, extVars>>
nonCH == <<dcVars, devVars, ldVars, extVars>>
nonLd == <<dcVars, devVars, chVars, extVars>>
nonRL == <<dcVars, devVars, chVars, ldVars, accVars, snVars, sgVars, bdVars, regVars, opVars, wrVars, efVars, tcVars, ltVars, lkVars>>
nonAcc == <<dcVars, devVars, chVars, ldVars, rlVars, snVars, sgVars, bdVars, regVars, opVars, wrVars, efVars, tcVars, ltVars, lkVars>>
nonSn == <<dcVars, devVars, chVars, ldVars, rlVars, accVars, sgVars, bdVars, regVars, opVars, wrVars, efVars, tcVars, ltVars, lkVars>>
nonSg == <<dcVars, devVars, chVars, ldVars, rlVars, accVars, snVars, bdVars, regVars, opVars, wrVars, efVars, tcVars, ltVars, lkVars>>
nonBd == <<dcVars, devVars, chVars, ldVars, rlVars, accVars, snVars, sgVars, regVars, opVars, wrVars, efVars, tcVars, ltVars, lkVars>>
nonReg == <<dcVars, devVars, chVars, ldVars, rlVars, accVars, snVars, sgVars, bdVars, opVars, wrVars, efVars, tcVars, ltVars, lkVars>>
nonOp == <<dcVars, devVars, chVars, ldVars, rlVars, accVars, snVars, sgVars, bdVars, regVars, wrVars, efVars, tcVars, ltVars, lkVars>>
nonWr == <<dcVars, devVars, chVars, ldVars, rlVars, accVars, snVars, sgVars, bdVars, regVars, opVars, efVars, tcVars, ltVars, lkVars>>
nonEf == <<dcVars, devVars, chVars, ldVars, rlVars, accVars, snVars, sgVars, bdVars, regVars, opVars, wrVars, tcVars, ltVars, lkVars>>
nonTc == <<dcVars, devVars, chVars, ldVars, rlVars, accVars, snVars, sgVars, bdVars, regVars, opVars, wrVars, efVars, ltVars, lkVars>>
nonLt == <<dcVars, devVars, chVars, ldVars, rlVars, accVars, snVars, sgVars, bdVars, regVars, opVars, wrVars, efVars, tcVars, lkVars>>
nonLk == <<dcVars, devVars, chVars, ldVars, rlVars, accVars, snVars, sgVars, bdVars, regVars, opVars, wrVars, efVars, tcVars, ltVars>>

(***************************************************************************)
(* Bounds of the model.                                                    *)
(***************************************************************************)
MaxReadTimeouts == 2    \* max_read_timeouts is drawn from 1..MaxReadTimeouts
MaxPasses == 3          \* connect() calls of one run task
MaxReads == 3           \* read_data() calls of one run task
MaxFrames == 3          \* frames the controller sends
MaxClock == 6           \* seconds counted inside stop()
MaxLines == 2           \* lines the sensor sends to one device
MaxDeliver == 3         \* readings delivered to the callback of one device
MaxOpens == 2           \* open() calls on one device
MaxCommands == 4        \* commands the client sends
MaxOut == 4             \* frames written to one client
MaxDevices == 3         \* devices get_device creates
MaxConfigLen == 2       \* devices in one configuration
MaxLdFrames == 4        \* frames handed to the LD-250 processor
MaxRateLimit == 6       \* config.rate_limit is drawn from 0..MaxRateLimit
MaxNumSamples == 3      \* num_samples is drawn from MinNumSamples..MaxNumSamples
MaxAdds == 5            \* add_sample calls on one accumulator
MaxGets == 3            \* get_topic_kwargs calls on one accumulator
MaxReplies == 3         \* replies to the trace query read on one connection
MaxSgConnects == 2      \* connect() calls of one spectrum analyzer client
MaxBdCalls == 4         \* start() and stop() calls on one data client
MaxRegGets == 3         \* get_data_client_class calls
MaxOpenCalls == 3       \* open() calls on one device
MaxWrFrames == 3        \* frames written by the tasks of one server
MaxEfFrames == 3        \* process_telemetry calls of one Efm100cProcessor
MaxSafeInterval == 2    \* safe_interval is drawn from 1..MaxSafeInterval
MaxLtFrames == 3        \* process_telemetry calls of one timed Ld250Processor
MaxLkFrames == 3        \* frames the controller sends on one connection
MaxLkCommands == 2      \* run_command calls on one connection

(***************************************************************************)
(* Program constants.                                                      *)
(***************************************************************************)
\* The floor of the rate limit, 0.05 s, in hundredths of a second.
MIN_RATE_LIMIT == 5

\* AirFlowAccumulator.__init__ raises ValueError for num_samples < 2.
MinNumSamples == 2

\* get_topic_kwargs was not called yet.
NoResult == [kind |-> "none", timestamp |-> 0, direction |-> "none", speed |-> "none"]

EXPECTED_NUMBER_OF_DATA_POINTS == 751

\* No reply to the trace query was read since the connect.
NotWriting == [frame |-> 0, chunk |-> 0]
\* The tasks that call SocketServer.write: read_loop with the replies to
\* the commands, and the _run task of each device with its telemetry.
WrTasks == {"read_loop", "device_1", "device_2"}
NoLookup == [name |-> "", outcome |-> "none"]
NoReply == [n |-> 0, len |-> 0, outcome |-> "none"]

\* extract_telemetry was not called yet.
NoOutput == [kind |-> "none", values |-> << >>]

\* No read_data call yet; the age of a call is <<t>>.
NoCall == << >>

TELEMETRY_LOOP_FINISH_TIMEOUT == 5

OK == 0
NOT_CONFIGURED == 1
NOT_STARTED == 2
ALREADY_STARTED == 3
INVALID_CONFIGURATION == 4
DEVICE_READ_ERROR == 10

(***************************************************************************)
(*                 ControllerDataClient  /  read loop                      *)
(***************************************************************************)

\* The frames a controller can put on the connection, by what read_json
\* returns for them: a command response (OK or not), a telemetry frame
\* (response_code OK, DEVICE_READ_ERROR or unknown; for a sensor that is not
\* configured; failing the telemetry schema), or a JSON object with neither key.
FrameKinds == {"resp_ok", "resp_err", "tel_ok", "tel_read_error", "tel_unknown_code",
               "tel_unknown_sensor", "tel_invalid", "garbage"}

IsResponse(k) == k \in {"resp_ok", "resp_err"}
IsTelemetry(k) == k \in {"tel_ok", "tel_read_error", "tel_unknown_code",
                         "tel_unknown_sensor", "tel_invalid"}

\* self.validator.validate(data): the telemetry schema.
ValidatesTelemetry(k) == k # "tel_invalid"

\* A dispatch without the test for Key.RESPONSE: every frame that validates
\* goes to process_telemetry.
CallsProcessTelemetry_NoResponseTest(k) == ValidatesTelemetry(k)

\* process_telemetry is called for every telemetry frame that validates.
CallsProcessTelemetry(k) == IsTelemetry(k) /\ ValidatesTelemetry(k)

\* process_telemetry raises RuntimeError for an unknown sensor name and for
\* response_code DEVICE_READ_ERROR (before it awaits anything).
ProcessTelemetryRaises(k) == k \in {"tel_unknown_sensor", "tel_read_error"}

\* process_telemetry awaits the processor only for response_code OK.
AwaitsProcessor(k) == k = "tel_ok"

\* Does an exception raised while handling a telemetry frame leave read_data?
\* read_data catches Exception around validate/process_telemetry, logs
\* "Ignoring." and returns.
ReadDataPropagates(raised) == FALSE

\* Mutant of GivesUp: an off-by-one in the comparison with max_read_timeouts.
GivesUp_OffByOne(n) == n > dc_max

\* The except clause of run: does the run task give up at this count?
GivesUp(n) == n >= dc_max

\* Every other component at rest.
DevIdle ==
    /\ dev_pc = "none"
    /\ dev_loop_should_end = FALSE
    /\ dev_is_open = FALSE
    /\ dev_open_event = FALSE
    /\ dev_in_error_state = FALSE
    /\ dev_transport = "closed"
    /\ dev_cancel_req = FALSE
    /\ dev_line = [id |-> 0, kind |-> "none"]
    /\ dev_response = OK
    /\ dev_open_pc = "none"
    /\ dev_close_pc = "none"
    /\ dev_wire_next = 1
    /\ dev_delivered = << >>
    /\ dev_opens = 0
    /\ dev_sensor = "Temperature"
    /\ dev_caught = "none"

\* self._configuration = None
NoConfiguration == [set |-> FALSE, devices |-> << >>]

ChIdle ==
    /\ srv_running = TRUE
    /\ srv_connected = FALSE
    /\ srv_loop = "none"
    /\ srv_out = << >>
    /\ ch_configuration = NoConfiguration
    /\ ch_started = FALSE
    /\ ch_devices = << >>
    /\ ch_open = {}
    /\ ch_next_dev = 1
    /\ ch_last = [seq |-> 0, cmd |-> "none"]

\* self.strike_timer_task = utils.make_done_future()
LdIdle ==
    /\ ld_timer = "initial_done"
    /\ ld_frames = 0
    /\ ld_log = << >>
    /\ ld_last = "none"
    /\ ld_raised = "none"

RunTaskEnded == dc_pc \in {"idle", "done", "failed", "cancelled"}
RunTaskLive == ~RunTaskEnded

DCIdle ==
    /\ dc_pc = "idle"
    /\ dc_max \in 1..MaxReadTimeouts
    /\ dc_loop_should_end = FALSE
    /\ dc_num_timeouts = 0
    /\ dc_timeout_event = FALSE
    /\ dc_connected = FALSE
    /\ dc_exc = "none"
    /\ dc_cancel_req = FALSE
    /\ dc_lock = "free"
    /\ dc_stop_pc = "none"
    /\ dc_stop_elapsed = 0
    /\ dc_connects = 0
    /\ dc_reads = 0
    /\ dc_next_id = 1
    /\ dc_cmd_frames = {}
    /\ dc_handled = [i \in 1..MaxFrames |-> 0]
    /\ dc_last_frame = "none"

\* The components of the other specifications, at rest.
RLIdle ==
    /\ rl_pc = "idle"
    /\ rl_cfg = 0
    /\ rl_rate_limit = MIN_RATE_LIMIT
    /\ rl_timer = 0
    /\ rl_exc = "none"
    /\ rl_loop_should_end = FALSE
    /\ rl_connected = FALSE
    /\ rl_num_timeouts = 0
    /\ rl_cancel_req = FALSE
    /\ rl_stop_pc = "none"
    /\ rl_call_age = NoCall
    /\ rl_succ_age = NoCall
    /\ rl_prev = NoCall
    /\ rl_last_gap = NoCall

AccIdle ==
    /\ acc_num_samples = MinNumSamples
    /\ acc_timestamp = << >>
    /\ acc_num_bad_samples = 0
    /\ acc_result = NoResult
    /\ acc_adds = 0
    /\ acc_gets = 0

SnIdle ==
    /\ sn_sensor = "Csat3b"
    /\ sn_line = << >>
    /\ sn_mask = 0
    /\ sn_output = NoOutput

SgIdle ==
    /\ sg_pc = "idle"
    /\ sg_have_seen_data = FALSE
    /\ sg_written = 0
    /\ sg_last = NoReply
    /\ sg_connects = 0

BdIdle ==
    /\ bd_kind = "Mock"
    /\ bd_connect_raises = FALSE
    /\ bd_disconnect_raises = FALSE
    /\ bd_connected = FALSE
    /\ bd_run = "done"
    /\ bd_cancel_req = FALSE
    /\ bd_start_pc = "none"
    /\ bd_stop_pc = "none"
    /\ bd_stop_running = FALSE
    /\ bd_calls = 0

RegIdle ==
    /\ reg_defined = {}
    /\ reg_registry = {}
    /\ reg_result = NoLookup
    /\ reg_gets = 0

OpIdle ==
    /\ op_is_open = FALSE
    /\ op_loop_should_end = FALSE
    /\ op_open_event = FALSE
    /\ op_tasks = << >>
    /\ op_cancel_req = FALSE
    /\ op_calls = << >>
    /\ op_close_pc = "none"

WrIdle ==
    /\ wr_connected = TRUE
    /\ wr_pc = [t \in WrTasks |-> NotWriting]
    /\ wr_wire = << >>
    /\ wr_next = 1

EfIdle ==
    /\ ef_timer = "initial_done"
    /\ ef_frames = 0
    /\ ef_log = << >>

TcIdle ==
    /\ tc_pc = "idle"
    /\ tc_loop_should_end = FALSE
    /\ tc_connected = FALSE
    /\ tc_num_timeouts = 0
    /\ tc_exc = "none"
    /\ tc_cancel_req = FALSE
    /\ tc_connects = 0
    /\ tc_reads = 0
    /\ tc_cancelled_at = "none"
    /\ tc_timeout_event = FALSE
    /\ tc_fails = 0

LtIdle ==
    /\ lt_safe_interval = 1
    /\ lt_timer = "initial_done"
    /\ lt_timer_age = 0
    /\ lt_strike_age = NoCall
    /\ lt_frames = 0
    /\ lt_log = << >>

LkIdle ==
    /\ lk_holder = "none"
    /\ lk_connected = TRUE
    /\ lk_reader_pc = "idle"
    /\ lk_cmd_pc = "idle"
    /\ lk_cmd_end = "none"
    /\ lk_reader_frames = 0
    /\ lk_cmd_frames = 0
    /\ lk_cmds = 0

ExtIdle == RLIdle /\ AccIdle /\ SnIdle /\ SgIdle /\ BdIdle /\ RegIdle /\ OpIdle /\ WrIdle /\ EfIdle /\ TcIdle /\ LtIdle /\ LkIdle

RestRLIdle ==
    /\ DCIdle /\ DevIdle /\ ChIdle /\ LdIdle
    /\ AccIdle
    /\ SnIdle
    /\ SgIdle
    /\ BdIdle
    /\ RegIdle
    /\ OpIdle
    /\ WrIdle
    /\ EfIdle
    /\ TcIdle
    /\ LtIdle
    /\ LkIdle

RestAccIdle ==
    /\ DCIdle /\ DevIdle /\ ChIdle /\ LdIdle
    /\ RLIdle
    /\ SnIdle
    /\ SgIdle
    /\ BdIdle
    /\ RegIdle
    /\ OpIdle
    /\ WrIdle
    /\ EfIdle
    /\ TcIdle
    /\ LtIdle
    /\ LkIdle

RestSnIdle ==
    /\ DCIdle /\ DevIdle /\ ChIdle /\ LdIdle
    /\ RLIdle
    /\ AccIdle
    /\ SgIdle
    /\ BdIdle
    /\ RegIdle
    /\ OpIdle
    /\ WrIdle
    /\ EfIdle
    /\ TcIdle
    /\ LtIdle
    /\ LkIdle

RestSgIdle ==
    /\ DCIdle /\ DevIdle /\ ChIdle /\ LdIdle
    /\ RLIdle
    /\ AccIdle
    /\ SnIdle
    /\ BdIdle
    /\ RegIdle
    /\ OpIdle
    /\ WrIdle
    /\ EfIdle
    /\ TcIdle
    /\ LtIdle
    /\ LkIdle

RestBdIdle ==
    /\ DCIdle /\ DevIdle /\ ChIdle /\ LdIdle
    /\ RLIdle
    /\ AccIdle
    /\ SnIdle
    /\ SgIdle
    /\ RegIdle
    /\ OpIdle
    /\ WrIdle
    /\ EfIdle
    /\ TcIdle
    /\ LtIdle
    /\ LkIdle

RestRegIdle ==
    /\ DCIdle /\ DevIdle /\ ChIdle /\ LdIdle
    /\ RLIdle
    /\ AccIdle
    /\ SnIdle
    /\ SgIdle
    /\ BdIdle
    /\ OpIdle
    /\ WrIdle
    /\ EfIdle
    /\ TcIdle
    /\ LtIdle
    /\ LkIdle

RestOpIdle ==
    /\ DCIdle /\ DevIdle /\ ChIdle /\ LdIdle
    /\ RLIdle
    /\ AccIdle
    /\ SnIdle
    /\ SgIdle
    /\ BdIdle
    /\ RegIdle
    /\ WrIdle
    /\ EfIdle
    /\ TcIdle
    /\ LtIdle
    /\ LkIdle

RestWrIdle ==
    /\ DCIdle /\ DevIdle /\ ChIdle /\ LdIdle
    /\ RLIdle
    /\ AccIdle
    /\ SnIdle
    /\ SgIdle
    /\ BdIdle
    /\ RegIdle
    /\ OpIdle
    /\ EfIdle
    /\ TcIdle
    /\ LtIdle
    /\ LkIdle

RestEfIdle ==
    /\ DCIdle /\ DevIdle /\ ChIdle /\ LdIdle
    /\ RLIdle
    /\ AccIdle
    /\ SnIdle
    /\ SgIdle
    /\ BdIdle
    /\ RegIdle
    /\ OpIdle
    /\ WrIdle
    /\ TcIdle
    /\ LtIdle
    /\ LkIdle

RestTcIdle ==
    /\ DCIdle /\ DevIdle /\ ChIdle /\ LdIdle
    /\ RLIdle
    /\ AccIdle
    /\ SnIdle
    /\ SgIdle
    /\ BdIdle
    /\ RegIdle
    /\ OpIdle
    /\ WrIdle
    /\ EfIdle
    /\ LtIdle
    /\ LkIdle

RestLtIdle ==
    /\ DCIdle /\ DevIdle /\ ChIdle /\ LdIdle
    /\ RLIdle
    /\ AccIdle
    /\ SnIdle
    /\ SgIdle
    /\ BdIdle
    /\ RegIdle
    /\ OpIdle
    /\ WrIdle
    /\ EfIdle
    /\ TcIdle
    /\ LkIdle

RestLkIdle ==
    /\ DCIdle /\ DevIdle /\ ChIdle /\ LdIdle
    /\ RLIdle
    /\ AccIdle
    /\ SnIdle
    /\ SgIdle
    /\ BdIdle
    /\ RegIdle
    /\ OpIdle
    /\ WrIdle
    /\ EfIdle
    /\ TcIdle
    /\ LtIdle

DCInit == DCIdle /\ DevIdle /\ ChIdle /\ LdIdle /\ ExtIdle

\* `while not self.loop_should_end:` followed by the head of the try block:
\* the suspension point the run task reaches next.
LoopTop(lse, conn) ==
    IF lse THEN "done" ELSE IF ~conn THEN "connect" ELSE "read"

\* `while self.connected and not self.loop_should_end:`; leaving the inner
\* loop without an exception leads to the finally clause (disconnect).
InnerLoop(lse, conn) ==
    IF conn /\ ~lse THEN "read" ELSE "disconnect"

\* Mutant of ExceptClause: the failure is acted upon but not counted.
ExceptClause_NoCount(n, ev) ==
    IF GivesUp(n + 1)
    THEN [num |-> n, lse |-> TRUE, ev |-> TRUE, exc |-> "raise"]
    ELSE [num |-> n, lse |-> FALSE, ev |-> ev, exc |-> "none"]

\* `except Exception` of run: count the failure; give up at max_read_timeouts
\* (stop is requested, the timeout event is set, the exception is re-raised),
\* else clear loop_should_end and fall through to the finally clause.
ExceptClause(n, ev) ==
    IF GivesUp(n + 1)
    THEN [num |-> n + 1, lse |-> TRUE, ev |-> TRUE, exc |-> "raise"]
    ELSE [num |-> n + 1, lse |-> FALSE, ev |-> ev, exc |-> "none"]

\* History and lock bookkeeping shared by the steps of the run task.
Account ==
    LET newConnect == dc_pc' = "connect" /\ dc_pc # "connect"
        newRead == dc_pc' = "read" /\ dc_pc # "read"
    IN  /\ dc_connects' = dc_connects + (IF newConnect THEN 1 ELSE 0)
        /\ dc_reads' = dc_reads + (IF newRead THEN 1 ELSE 0)
        /\ dc_connects' <= MaxPasses
        /\ dc_reads' <= MaxReads
        /\ dc_lock' = CASE dc_pc' = "command" -> "command"
                        [] dc_pc' = "read" -> "read"
                        [] OTHER -> "free"

\* The run task raises into `except Exception` from inside the try block.
RaiseInTry ==
    LET r == ExceptClause(dc_num_timeouts, dc_timeout_event)
    IN  /\ dc_num_timeouts' = r.num
        /\ dc_loop_should_end' = r.lse
        /\ dc_timeout_event' = r.ev
        /\ dc_exc' = r.exc
        /\ dc_pc' = "disconnect"

\* Mutant of CancelInTry: the cancellation leaves run() without the finally
\* clause.
CancelInTry_NoFinally ==
    /\ dc_cancel_req' = FALSE
    /\ dc_loop_should_end' = TRUE
    /\ dc_exc' = "none"
    /\ dc_pc' = "cancelled"
    /\ UNCHANGED <<dc_num_timeouts, dc_timeout_event>>

\* The run task takes `except asyncio.CancelledError` of the try block.
CancelInTry ==
    /\ dc_cancel_req' = FALSE
    /\ dc_loop_should_end' = TRUE
    /\ dc_exc' = "none"
    /\ dc_pc' = "disconnect"
    /\ UNCHANGED <<dc_num_timeouts, dc_timeout_event>>

\* start(): clear loop_should_end and create the run task.
DCStart ==
    /\ UNCHANGED nonDC
    /\ dc_pc = "idle"
    /\ dc_stop_pc = "none"
    /\ dc_pc' = "start"
    /\ dc_loop_should_end' = FALSE
    /\ UNCHANGED <<dc_max, dc_num_timeouts, dc_timeout_event, dc_connected, dc_exc,
                   dc_cancel_req, dc_lock, dc_stop_pc, dc_stop_elapsed, dc_connects,
                   dc_reads, dc_next_id, dc_cmd_frames, dc_handled, dc_last_frame>>

\* First step of run(): reset the counter and the event, enter the loop.
\* A task cancelled before its first step never runs its body.
DCRunBegin ==
    /\ UNCHANGED nonDC
    /\ dc_pc = "start"
    /\ IF dc_cancel_req
       THEN /\ dc_pc' = "cancelled"
            /\ dc_cancel_req' = FALSE
            /\ UNCHANGED <<dc_num_timeouts, dc_timeout_event>>
       ELSE /\ dc_num_timeouts' = 0
            /\ dc_timeout_event' = FALSE
            /\ dc_pc' = LoopTop(dc_loop_should_end, dc_connected)
            /\ UNCHANGED dc_cancel_req
    /\ UNCHANGED <<dc_max, dc_loop_should_end, dc_connected, dc_exc, dc_stop_pc,
                   dc_stop_elapsed, dc_next_id, dc_cmd_frames, dc_handled, dc_last_frame>>
    /\ Account

\* connect(): `await self.client.start_task` under connect_timeout. On success
\* run_command(configure) takes the stream lock, writes the command and waits
\* for frames (pc "command").
DCConnect ==
    /\ UNCHANGED nonDC
    /\ dc_pc = "connect"
    /\ \/ /\ dc_cancel_req
          /\ CancelInTry
          /\ UNCHANGED dc_connected
       \/ /\ ~dc_cancel_req
          /\ RaiseInTry
          /\ UNCHANGED <<dc_connected, dc_cancel_req>>
       \/ /\ ~dc_cancel_req
          /\ dc_connected' = TRUE
          /\ dc_pc' = "command"
          /\ UNCHANGED <<dc_num_timeouts, dc_loop_should_end, dc_timeout_event, dc_exc,
                         dc_cancel_req>>
    /\ UNCHANGED <<dc_max, dc_stop_pc, dc_stop_elapsed, dc_next_id, dc_cmd_frames,
                   dc_handled, dc_last_frame>>
    /\ Account

\* _basic_run_command: `data = await self.client.read_json()` while the
\* command is outstanding. A response ends the command (OK: return,
\* otherwise RuntimeError); any other frame is logged as
\* "Ignoring non-command-ack." and the loop reads on.
DCCommandRead ==
    /\ UNCHANGED nonDC
    /\ dc_pc = "command"
    /\ \/ /\ dc_cancel_req
          /\ CancelInTry
          /\ UNCHANGED <<dc_connected, dc_next_id, dc_cmd_frames>>
       \/ \* connect_timeout expires, or the connection is lost
          /\ ~dc_cancel_req
          /\ RaiseInTry
          /\ dc_connected' \in {dc_connected, FALSE}
          /\ UNCHANGED <<dc_cancel_req, dc_next_id, dc_cmd_frames>>
       \/ /\ ~dc_cancel_req
          /\ dc_next_id <= MaxFrames
          /\ \E k \in FrameKinds :
                /\ dc_next_id' = dc_next_id + 1
                /\ IF k = "resp_ok"
                   THEN /\ dc_pc' = InnerLoop(dc_loop_should_end, dc_connected)
                        /\ UNCHANGED <<dc_num_timeouts, dc_loop_should_end,
                                       dc_timeout_event, dc_exc, dc_cmd_frames>>
                   ELSE IF k = "resp_err"
                   THEN /\ RaiseInTry
                        /\ UNCHANGED dc_cmd_frames
                   ELSE /\ dc_pc' = "command"
                        /\ dc_cmd_frames' = IF IsTelemetry(k)
                                            THEN dc_cmd_frames \cup {dc_next_id}
                                            ELSE dc_cmd_frames
                        /\ UNCHANGED <<dc_num_timeouts, dc_loop_should_end,
                                       dc_timeout_event, dc_exc>>
          /\ UNCHANGED <<dc_connected, dc_cancel_req>>
    /\ UNCHANGED <<dc_max, dc_stop_pc, dc_stop_elapsed, dc_handled, dc_last_frame>>
    /\ Account

\* read_data returns normally: run resets the counter and clears the event,
\* then awaits the rate limit task in the finally clause.
ReadSucceeds ==
    /\ dc_num_timeouts' = 0
    /\ dc_timeout_event' = FALSE
    /\ dc_exc' = "none"
    /\ dc_pc' = "rate_wait"

\* read_data raises: the exception is pending while the finally clause
\* awaits the rate limit task.
ReadRaises(e) ==
    /\ dc_exc' = e
    /\ dc_pc' = "rate_wait"
    /\ UNCHANGED <<dc_num_timeouts, dc_timeout_event>>

\* read_data: `data = await self.client.read_json()` under the stream lock
\* and read_timeout, then the dispatch on the frame's keys.
DCReadData ==
    /\ UNCHANGED nonDC
    /\ dc_pc = "read"
    /\ \/ /\ dc_cancel_req
          /\ dc_cancel_req' = FALSE
          /\ ReadRaises("cancel")
          /\ dc_last_frame' = "none"
          /\ UNCHANGED <<dc_connected, dc_next_id, dc_handled>>
       \/ \* read_timeout expires, or the connection is lost
          /\ ~dc_cancel_req
          /\ ReadRaises("exc")
          /\ dc_connected' \in {dc_connected, FALSE}
          /\ dc_last_frame' = "none"
          /\ UNCHANGED <<dc_cancel_req, dc_next_id, dc_handled>>
       \/ /\ ~dc_cancel_req
          /\ dc_next_id <= MaxFrames
          /\ \E k \in FrameKinds :
                /\ dc_next_id' = dc_next_id + 1
                /\ dc_last_frame' = k
                /\ dc_handled' = IF CallsProcessTelemetry(k)
                                 THEN [dc_handled EXCEPT ![dc_next_id] = @ + 1]
                                 ELSE dc_handled
                /\ IF CallsProcessTelemetry(k) /\ AwaitsProcessor(k)
                   THEN /\ dc_pc' = "process"
                        /\ UNCHANGED <<dc_num_timeouts, dc_timeout_event, dc_exc>>
                   ELSE IF ReadDataPropagates((IsTelemetry(k) /\ ~ValidatesTelemetry(k))
                                              \/ ProcessTelemetryRaises(k))
                   THEN ReadRaises("exc")
                   ELSE ReadSucceeds
          /\ UNCHANGED <<dc_connected, dc_cancel_req>>
    /\ UNCHANGED <<dc_max, dc_loop_should_end, dc_stop_pc, dc_stop_elapsed, dc_cmd_frames>>
    /\ Account

\* process_telemetry awaiting the sensor's processor (its topic writes).
DCProcess ==
    /\ UNCHANGED nonDC
    /\ dc_pc = "process"
    /\ \/ /\ dc_cancel_req
          /\ dc_cancel_req' = FALSE
          /\ ReadRaises("cancel")
       \/ \* the processor returns
          /\ ~dc_cancel_req
          /\ ReadSucceeds
          /\ UNCHANGED dc_cancel_req
       \/ \* the processor raises
          /\ ~dc_cancel_req
          /\ IF ReadDataPropagates(TRUE) THEN ReadRaises("exc") ELSE ReadSucceeds
          /\ UNCHANGED dc_cancel_req
    /\ UNCHANGED <<dc_max, dc_loop_should_end, dc_connected, dc_stop_pc, dc_stop_elapsed,
                   dc_next_id, dc_cmd_frames, dc_handled, dc_last_frame>>
    /\ Account

\* `finally: await rate_limit_task` of the inner loop, then whatever was
\* pending: the exception of read_data, or the next turn of the inner loop.
DCRateWait ==
    /\ UNCHANGED nonDC
    /\ dc_pc = "rate_wait"
    /\ \/ /\ dc_cancel_req \/ dc_exc = "cancel"
          /\ CancelInTry
       \/ /\ ~dc_cancel_req
          /\ dc_exc = "exc"
          /\ RaiseInTry
          /\ UNCHANGED dc_cancel_req
       \/ /\ ~dc_cancel_req
          /\ dc_exc = "none"
          /\ dc_pc' = InnerLoop(dc_loop_should_end, dc_connected)
          /\ UNCHANGED <<dc_num_timeouts, dc_loop_should_end, dc_timeout_event, dc_exc,
                         dc_cancel_req>>
    /\ UNCHANGED <<dc_max, dc_connected, dc_stop_pc, dc_stop_elapsed, dc_next_id,
                   dc_cmd_frames, dc_handled, dc_last_frame>>
    /\ Account

\* `finally: await self.disconnect()`, then the re-raise of a give-up, the
\* reconnect cool-down, or the next turn of the outer loop. A CancelledError
\* raised inside the finally clause leaves run().
DCDisconnect ==
    /\ UNCHANGED nonDC
    /\ dc_pc = "disconnect"
    /\ IF dc_cancel_req
       THEN /\ dc_pc' = "cancelled"
            /\ dc_cancel_req' = FALSE
            /\ UNCHANGED <<dc_connected, dc_exc>>
       ELSE /\ dc_connected' = FALSE
            /\ dc_exc' = "none"
            /\ dc_pc' = IF ~dc_loop_should_end THEN "cooldown"
                        ELSE IF dc_exc = "raise" THEN "failed"
                        ELSE LoopTop(dc_loop_should_end, FALSE)
            /\ UNCHANGED dc_cancel_req
    /\ UNCHANGED <<dc_max, dc_loop_should_end, dc_num_timeouts, dc_timeout_event,
                   dc_stop_pc, dc_stop_elapsed, dc_next_id, dc_cmd_frames, dc_handled,
                   dc_last_frame>>
    /\ Account

\* `await asyncio.sleep(self.connect_timeout)` in the finally clause.
DCCooldown ==
    /\ UNCHANGED nonDC
    /\ dc_pc = "cooldown"
    /\ IF dc_cancel_req
       THEN /\ dc_pc' = "cancelled"
            /\ dc_cancel_req' = FALSE
       ELSE /\ dc_pc' = LoopTop(dc_loop_should_end, dc_connected)
            /\ UNCHANGED dc_cancel_req
    /\ UNCHANGED <<dc_max, dc_loop_should_end, dc_num_timeouts, dc_timeout_event,
                   dc_connected, dc_exc, dc_stop_pc, dc_stop_elapsed, dc_next_id,
                   dc_cmd_frames, dc_handled, dc_last_frame>>
    /\ Account

\* run_task.cancel() by the owner of the data client.
DCCancel ==
    /\ UNCHANGED nonDC
    /\ RunTaskLive
    /\ ~dc_cancel_req
    /\ dc_cancel_req' = TRUE
    /\ UNCHANGED <<dc_pc, dc_max, dc_loop_should_end, dc_num_timeouts, dc_timeout_event,
                   dc_connected, dc_exc, dc_lock, dc_stop_pc, dc_stop_elapsed,
                   dc_connects, dc_reads, dc_next_id, dc_cmd_frames, dc_handled,
                   dc_last_frame>>

\* A stop() with `except TimeoutError` only.
StopCatches_TimeoutOnly == {"TimeoutError"}

\* The except clauses of stop(): `except TimeoutError` and
\* `except (Exception, asyncio.CancelledError)`; both log and go on.
StopCatches == {"TimeoutError", "Exception", "CancelledError"}

\* What `async with asyncio.timeout(...): await self.run_task` raises once
\* the run task has ended: nothing for a task that returned (or the done
\* future of a client never started), the exception of a task that failed,
\* and for a cancelled task CancelledError, which asyncio.timeout turns into
\* TimeoutError when the deadline had expired.
AwaitRunTaskRaises(pc, expired) ==
    CASE pc = "failed" -> "Exception"
      [] pc = "cancelled" -> IF expired THEN "TimeoutError" ELSE "CancelledError"
      [] OTHER -> "none"

\* How stop() ends once the run task has ended: in the finally clause
\* run_task.cancel() returns False for a task that is done, so nothing more
\* is awaited.
StopExit(pc, expired) ==
    LET e == AwaitRunTaskRaises(pc, expired)
    IN  IF e = "none" \/ e \in StopCatches THEN "done" ELSE "raised"

\* stop(): request the end of the loop and await the run task under
\* TELEMETRY_LOOP_FINISH_TIMEOUT. Awaiting a task that is done returns (or
\* raises into the except clauses) at once; run_task.cancel() of the finally
\* clause then returns False.
DCStop ==
    /\ UNCHANGED nonDC
    /\ dc_stop_pc = "none"
    /\ dc_loop_should_end' = TRUE
    /\ dc_stop_elapsed' = 0
    /\ dc_stop_pc' = IF RunTaskEnded THEN StopExit(dc_pc, FALSE) ELSE "waiting"
    /\ UNCHANGED <<dc_pc, dc_max, dc_num_timeouts, dc_timeout_event, dc_connected, dc_exc,
                   dc_cancel_req, dc_lock, dc_connects, dc_reads, dc_next_id,
                   dc_cmd_frames, dc_handled, dc_last_frame>>

\* One second passes while stop() waits for the run task.
DCTick ==
    /\ UNCHANGED nonDC
    /\ RunTaskLive
    /\ \/ dc_stop_pc = "waiting" /\ dc_stop_elapsed < TELEMETRY_LOOP_FINISH_TIMEOUT
       \/ dc_stop_pc = "cancel_wait" /\ dc_stop_elapsed < MaxClock
    /\ dc_stop_elapsed' = dc_stop_elapsed + 1
    /\ UNCHANGED <<dc_pc, dc_max, dc_loop_should_end, dc_num_timeouts, dc_timeout_event,
                   dc_connected, dc_exc, dc_cancel_req, dc_lock, dc_stop_pc, dc_connects,
                   dc_reads, dc_next_id, dc_cmd_frames, dc_handled, dc_last_frame>>

\* asyncio.timeout expires: stop() is cancelled at `await self.run_task`,
\* which cancels the awaited run task; stop() goes on waiting for it to end.
DCStopTimeout ==
    /\ UNCHANGED nonDC
    /\ dc_stop_pc = "waiting"
    /\ RunTaskLive
    /\ dc_stop_elapsed = TELEMETRY_LOOP_FINISH_TIMEOUT
    /\ dc_stop_pc' = "cancel_wait"
    /\ dc_cancel_req' = TRUE
    /\ UNCHANGED <<dc_pc, dc_max, dc_loop_should_end, dc_num_timeouts, dc_timeout_event,
                   dc_connected, dc_exc, dc_lock, dc_stop_elapsed, dc_connects, dc_reads,
                   dc_next_id, dc_cmd_frames, dc_handled, dc_last_frame>>

\* The run task has ended: stop() leaves its await (by return, by the run
\* task's exception or by TimeoutError, all handled) and returns.
DCStopReturn ==
    /\ UNCHANGED nonDC
    /\ dc_stop_pc \in {"waiting", "cancel_wait"}
    /\ RunTaskEnded
    /\ dc_stop_pc' = StopExit(dc_pc, dc_stop_pc = "cancel_wait")
    /\ UNCHANGED <<dc_pc, dc_max, dc_loop_should_end, dc_num_timeouts, dc_timeout_event,
                   dc_connected, dc_exc, dc_cancel_req, dc_lock, dc_stop_elapsed,
                   dc_connects, dc_reads, dc_next_id, dc_cmd_frames, dc_handled,
                   dc_last_frame>>

DCNext ==
    \/ DCStart \/ DCRunBegin \/ DCConnect \/ DCCommandRead \/ DCReadData
    \/ DCProcess \/ DCRateWait \/ DCDisconnect \/ DCCooldown \/ DCCancel
    \/ DCStop \/ DCTick \/ DCStopTimeout \/ DCStopReturn

SpecDC == DCInit /\ [][DCNext]_vars

\* The event loop runs a task that is ready: an awaited disconnect() ends.
SpecDCFair == DCInit /\ [][DCNext]_vars /\ WF_vars(DCDisconnect)

ConsecutiveFailuresReached == dc_num_timeouts >= dc_max

\* C1: once read_data (or the pass around it) has failed max_read_timeouts
\* times in a row, the run task is in its last disconnect with the re-raise
\* pending or has ended, and it does end; it starts no other connect() or
\* read_data(); and a stop() called after it has ended returns at once, well
\* within TELEMETRY_LOOP_FINISH_TIMEOUT.
C1_GiveUpEndsRunAndStop ==
    /\ [](ConsecutiveFailuresReached =>
            \/ dc_pc = "disconnect" /\ dc_exc = "raise" /\ dc_loop_should_end
            \/ dc_pc \in {"failed", "cancelled"})
    /\ [][ConsecutiveFailuresReached =>
            /\ dc_connects' = dc_connects
            /\ dc_reads' = dc_reads
            /\ ConsecutiveFailuresReached']_vars
    /\ [][(ConsecutiveFailuresReached /\ RunTaskEnded /\ dc_stop_pc = "none"
             /\ dc_stop_pc' # "none") =>
            (dc_stop_pc' = "done"
             /\ dc_stop_elapsed' <= TELEMETRY_LOOP_FINISH_TIMEOUT)]_vars
    /\ (ConsecutiveFailuresReached ~> RunTaskEnded)

C1_Witness ==
    /\ dc_max = MaxReadTimeouts
    /\ ConsecutiveFailuresReached
    /\ dc_reads >= dc_max
    /\ dc_pc = "failed"
    /\ dc_stop_pc = "done"

\* C2: every telemetry frame read from the connection while a command is
\* outstanding has been passed to process_telemetry exactly once.
C2_TelemetryDuringCommandDelivered ==
    \A i \in dc_cmd_frames : dc_handled[i] = 1

\* C9: when read_data has handled a telemetry frame with response_code
\* DEVICE_READ_ERROR, an exception is pending for the run loop, which counts
\* it in num_consecutive_read_timeouts.
C9_ReadErrorRaisedToRunLoop ==
    (dc_pc = "rate_wait" /\ dc_last_frame = "tel_read_error") => dc_exc = "exc"

\* read_data has read a command response while no command is outstanding.
ReadsResponse ==
    /\ dc_pc = "read"
    /\ dc_next_id' = dc_next_id + 1
    /\ IsResponse(dc_last_frame')

\* C23: a response frame read by read_data (no command is outstanding) is
\* ignored: process_telemetry is not called for it, no exception is pending
\* for the run loop, and the read counts as a success (the counter of
\* consecutive failures is reset and the run task goes on to its rate limit).
C23_StrayResponseIgnored ==
    [][ReadsResponse =>
        /\ dc_handled' = dc_handled
        /\ dc_exc' = "none"
        /\ dc_num_timeouts' = 0
        /\ dc_pc' = "rate_wait"]_vars

\* A failed response frame was read by read_data after an earlier failure
\* and reconnect.
C23_Witness ==
    /\ dc_pc = "rate_wait"
    /\ dc_last_frame = "resp_err"
    /\ dc_connects >= 2
    /\ dc_exc = "none"
    /\ dc_num_timeouts = 0

\* C28: stop() can be called in any state of the client (never started,
\* connecting, reading, in the cool-down, run task ended with an error): it
\* raises nothing, and when it has returned the run task is done.
C28_StopSafeInAnyState ==
    /\ dc_stop_pc # "raised"
    /\ dc_stop_pc = "done" => RunTaskEnded

\* stop() has returned after its deadline expired: the run task, which had
\* counted a failure, was cancelled in its finally clause.
C28_Witness ==
    /\ dc_stop_pc = "done"
    /\ dc_stop_elapsed >= TELEMETRY_LOOP_FINISH_TIMEOUT
    /\ dc_pc = "cancelled"
    /\ dc_num_timeouts >= 1

\* The run task is suspended inside the try block of a pass.
InPass(pc) == pc \in {"connect", "command", "read", "process", "rate_wait"}

\* The run task is outside every pass with the last one, if any, closed:
\* not yet in the loop, in or after `await self.disconnect()`.
BetweenPasses(pc) == pc \in {"start", "disconnect", "cooldown"}

\* C11: every pass of the lifecycle loop ends with disconnect(): whatever
\* makes the run task leave the try block (a failure below or at
\* max_read_timeouts, a cancellation, a stop request) takes it into
\* `await self.disconnect()`; a connect attempt and the end of the task are
\* reached only from before the first pass or from after a disconnect.
C11_PassEndsWithDisconnect ==
    [][/\ (InPass(dc_pc) /\ ~InPass(dc_pc')) => dc_pc' = "disconnect"
       /\ (dc_pc' = "connect" /\ dc_pc # "connect") => BetweenPasses(dc_pc)
       /\ (RunTaskLive /\ RunTaskEnded') => BetweenPasses(dc_pc)]_vars

\* A failure below max_read_timeouts, a reconnect, then the task ended.
C11_Witness ==
    /\ dc_pc \in {"done", "cancelled"}
    /\ dc_connects >= 2
    /\ dc_num_timeouts >= 1
    /\ ~dc_connected

(***************************************************************************)
(*                    BaseDevice (device supervisor)                       *)
(***************************************************************************)

DevTaskEnded == dev_pc \in {"none", "done", "failed", "cancelled"}
DevTaskLive == ~DevTaskEnded

NoLine == [id |-> 0, kind |-> "none"]

\* `line = f"{self.sensor.terminator}"`: the line of a reading that was not read.
TerminatorLine == [id |-> 0, kind |-> "terminator"]

\* The decoders by what extract_telemetry does with the line of a failed
\* read (the bare terminator): most return a NaN reading for it
\* ("Temperature" stands for them), AuroraSensorData.from_string raises
\* IndexError.
SensorKinds == {"Temperature", "Aurora"}

\* extract_telemetry raises, for a line it cannot parse ("bad") or for the
\* bare terminator.
DecoderRaises(sensor, line) ==
    \/ line.kind = "bad"
    \/ line.kind = "terminator" /\ sensor = "Aurora"

\* The exceptions `except BaseException` around readline() catches and hands
\* to handle_readline_exception, which logs and returns: the read deadline
\* (TimeoutError), an I/O error, and CancelledError.
CaughtAtReadline == {"timeout", "io_error", "cancelled"}

\* The finally clause of _run when basic_close returns without suspending
\* (MockDevice.basic_close, TcpipDevice.basic_close when not connected), then
\* the exception leaving the task or the test of
\* `while not self.loop_should_end`. exc: an exception other than
\* CancelledError is propagating; lse: loop_should_end at this point.
Finally(exc, lse) ==
    /\ dev_open_event' = FALSE
    /\ dev_transport' = "closed"
    /\ dev_is_open' = FALSE
    /\ dev_loop_should_end' = lse
    /\ dev_line' = NoLine
    /\ dev_pc' = IF exc THEN "failed" ELSE IF lse THEN "done" ELSE "opening"

\* The finally clause of _run up to the suspension of `await
\* self.basic_close()` (TcpipDevice.basic_close awaits client.close() when
\* connected). opened: basic_open has just returned.
FinallySuspend(exc, lse, opened) ==
    /\ opened \/ dev_transport = "open"
    /\ dev_open_event' = FALSE
    /\ dev_transport' = "open"
    /\ dev_is_open' = IF opened THEN TRUE ELSE dev_is_open
    /\ dev_loop_should_end' = lse
    /\ dev_line' = NoLine
    /\ dev_pc' = IF exc THEN "closing_exc" ELSE "closing"

RunFinally(exc, lse, opened) ==
    \/ Finally(exc, lse)
    \/ FinallySuspend(exc, lse, opened)

\* `except asyncio.CancelledError: self.loop_should_end = True`, then finally.
DevCancelInTry ==
    /\ dev_cancel_req' = FALSE
    /\ RunFinally(FALSE, TRUE, FALSE)

\* `while self.is_open and not self.loop_should_end:` and the head of its
\* body: the next suspension point, or "finally" when the loop is left.
InnerNext(open, lse, err) ==
    IF open /\ ~lse THEN (IF ~err THEN "readline" ELSE "sleep") ELSE "finally"

\* open(): clear loop_should_end and open_event, create the task, wait for
\* open_event.
DevOpen ==
    /\ UNCHANGED <<nonDev, dev_sensor, dev_caught>>
    /\ DevTaskEnded
    /\ dev_close_pc \in {"none", "done"}
    /\ dev_opens < MaxOpens
    /\ dev_opens' = dev_opens + 1
    /\ dev_loop_should_end' = FALSE
    /\ dev_open_event' = FALSE
    /\ dev_pc' = "start"
    /\ dev_open_pc' = "waiting"
    /\ dev_close_pc' = "none"
    /\ UNCHANGED <<dev_is_open, dev_in_error_state, dev_transport, dev_cancel_req,
                   dev_line, dev_response, dev_wire_next, dev_delivered>>

\* open() resumes: its wait on open_event was satisfied by open_event.set().
DevOpenReturn ==
    /\ UNCHANGED <<nonDev, dev_sensor, dev_caught>>
    /\ dev_open_pc = "woken"
    /\ dev_open_pc' = "done"
    /\ UNCHANGED <<dev_pc, dev_loop_should_end, dev_is_open, dev_open_event,
                   dev_in_error_state, dev_transport, dev_cancel_req, dev_line,
                   dev_response, dev_close_pc, dev_wire_next, dev_delivered, dev_opens>>

\* First step of _run. A task cancelled before its first step never runs
\* its body.
DevRunBegin ==
    /\ UNCHANGED <<nonDev, dev_sensor, dev_caught>>
    /\ dev_pc = "start"
    /\ IF dev_cancel_req
       THEN /\ dev_pc' = "cancelled"
            /\ dev_cancel_req' = FALSE
            /\ UNCHANGED <<dev_open_event, dev_transport, dev_is_open,
                           dev_loop_should_end, dev_line>>
       ELSE /\ dev_open_event' = FALSE
            /\ dev_pc' = IF dev_loop_should_end THEN "done"
                         ELSE IF ~dev_is_open THEN "opening"
                         ELSE InnerNext(dev_is_open, dev_loop_should_end,
                                        dev_in_error_state)
            /\ UNCHANGED <<dev_cancel_req, dev_transport, dev_is_open,
                           dev_loop_should_end, dev_line>>
    /\ UNCHANGED <<dev_in_error_state, dev_response, dev_open_pc, dev_close_pc,
                   dev_wire_next, dev_delivered, dev_opens>>

\* `await self.basic_open()`.
DevBasicOpen ==
    /\ UNCHANGED <<nonDev, dev_sensor, dev_caught>>
    /\ dev_pc = "opening"
    /\ \/ /\ dev_cancel_req
          /\ DevCancelInTry
          /\ UNCHANGED dev_open_pc
       \/ \* basic_open raises
          /\ ~dev_cancel_req
          /\ RunFinally(TRUE, dev_loop_should_end, FALSE)
          /\ UNCHANGED <<dev_cancel_req, dev_open_pc>>
       \/ \* basic_open returns: is_open = True, open_event.set() wakes open()
          /\ ~dev_cancel_req
          /\ dev_open_pc' = IF dev_open_pc = "waiting" THEN "woken" ELSE dev_open_pc
          /\ LET nxt == InnerNext(TRUE, dev_loop_should_end, dev_in_error_state)
             IN  IF nxt = "finally"
                 THEN RunFinally(FALSE, dev_loop_should_end, TRUE)
                 ELSE /\ dev_transport' = "open"
                      /\ dev_is_open' = TRUE
                      /\ dev_open_event' = TRUE
                      /\ dev_pc' = nxt
                      /\ UNCHANGED <<dev_loop_should_end, dev_line>>
          /\ UNCHANGED dev_cancel_req
    /\ UNCHANGED <<dev_in_error_state, dev_response, dev_close_pc,
                   dev_wire_next, dev_delivered, dev_opens>>

\* `await self.basic_close()` resumes, then `self.is_open = False`. A
\* CancelledError raised at this await leaves the finally clause before
\* is_open is reset; how far client.close() got is not known.
DevBasicClose ==
    /\ UNCHANGED <<nonDev, dev_sensor, dev_caught>>
    /\ dev_pc \in {"closing", "closing_exc"}
    /\ IF dev_cancel_req
       THEN /\ dev_cancel_req' = FALSE
            /\ dev_pc' = "cancelled"
            /\ dev_transport' \in {"open", "closed"}
            /\ UNCHANGED dev_is_open
       ELSE /\ dev_transport' = "closed"
            /\ dev_is_open' = FALSE
            /\ dev_pc' = IF dev_pc = "closing_exc" THEN "failed"
                         ELSE IF dev_loop_should_end THEN "done" ELSE "opening"
            /\ UNCHANGED dev_cancel_req
    /\ UNCHANGED <<dev_loop_should_end, dev_open_event, dev_in_error_state, dev_line,
                   dev_response, dev_open_pc, dev_close_pc, dev_wire_next,
                   dev_delivered, dev_opens>>

\* `line = await self.readline()` under asyncio.timeout(READ_TIMEOUT). Every
\* exception in CaughtAtReadline is handled by handle_readline_exception and
\* the iteration goes on with the terminator line and DEVICE_READ_ERROR.
DevReadline ==
    /\ UNCHANGED <<nonDev, dev_sensor>>
    /\ dev_pc = "readline"
    /\ \/ /\ \E e \in CaughtAtReadline :
                /\ (e = "cancelled") = dev_cancel_req
                /\ dev_caught' = e
                /\ dev_line' = TerminatorLine
                /\ dev_response' = DEVICE_READ_ERROR
          /\ dev_cancel_req' = FALSE
          /\ UNCHANGED dev_wire_next
       \/ /\ ~dev_cancel_req
          /\ dev_wire_next <= MaxLines
          /\ \E k \in {"good", "bad"} :
                dev_line' = [id |-> dev_wire_next, kind |-> k]
          /\ dev_wire_next' = dev_wire_next + 1
          /\ dev_response' = OK
          /\ dev_caught' = "none"
          /\ UNCHANGED dev_cancel_req
    /\ dev_pc' = "decode"
    /\ UNCHANGED <<dev_loop_should_end, dev_is_open, dev_open_event, dev_in_error_state,
                   dev_transport, dev_open_pc, dev_close_pc, dev_delivered, dev_opens>>

\* `await asyncio.sleep(ERROR_STATE_SLEEP_TIME)` of the injected error state.
DevSleep ==
    /\ UNCHANGED <<nonDev, dev_sensor>>
    /\ dev_pc = "sleep"
    /\ dev_caught' = "none"
    /\ IF dev_cancel_req
       THEN /\ DevCancelInTry
            /\ UNCHANGED dev_response
       ELSE /\ dev_line' = TerminatorLine
            /\ dev_response' = DEVICE_READ_ERROR
            /\ dev_pc' = "decode"
            /\ UNCHANGED <<dev_cancel_req, dev_loop_should_end, dev_is_open,
                           dev_open_event, dev_transport>>
    /\ UNCHANGED <<dev_in_error_state, dev_open_pc, dev_close_pc, dev_wire_next,
                   dev_delivered, dev_opens>>

\* `await self.sensor.extract_telemetry(line=line)`: the decoder raises for a
\* line it cannot parse; nothing in _run catches that.
DevDecode ==
    /\ UNCHANGED <<nonDev, dev_sensor, dev_caught>>
    /\ dev_pc = "decode"
    /\ IF dev_cancel_req
       THEN DevCancelInTry
       ELSE IF DecoderRaises(dev_sensor, dev_line)
       THEN /\ RunFinally(TRUE, dev_loop_should_end, FALSE)
            /\ UNCHANGED dev_cancel_req
       ELSE /\ dev_pc' = "callback"
            /\ UNCHANGED <<dev_cancel_req, dev_loop_should_end, dev_is_open,
                           dev_open_event, dev_transport, dev_line>>
    /\ UNCHANGED <<dev_in_error_state, dev_response, dev_open_pc, dev_close_pc,
                   dev_wire_next, dev_delivered, dev_opens>>

\* A callback that loses the reading it was called with.
Deliver_Lost(delivered, line, response) == delivered

\* The callback has returned: the reading built from the line (its wire id
\* and its response code) is delivered.
Deliver(delivered, line, response) ==
    Append(delivered, [id |-> line.id, code |-> response])

\* `await self._callback_func(reply)`, then the next turn of the inner loop.
DevCallback ==
    /\ UNCHANGED <<nonDev, dev_sensor, dev_caught>>
    /\ dev_pc = "callback"
    /\ \/ /\ dev_cancel_req
          /\ DevCancelInTry
          /\ UNCHANGED dev_delivered
       \/ \* the callback raises
          /\ ~dev_cancel_req
          /\ RunFinally(TRUE, dev_loop_should_end, FALSE)
          /\ UNCHANGED <<dev_cancel_req, dev_delivered>>
       \/ \* the callback returns
          /\ ~dev_cancel_req
          /\ Len(dev_delivered) < MaxDeliver
          /\ dev_delivered' = Deliver(dev_delivered, dev_line, dev_response)
          /\ LET nxt == InnerNext(dev_is_open, dev_loop_should_end, dev_in_error_state)
             IN  IF nxt = "finally"
                 THEN RunFinally(FALSE, dev_loop_should_end, FALSE)
                 ELSE /\ dev_pc' = nxt
                      /\ dev_line' = NoLine
                      /\ UNCHANGED <<dev_loop_should_end, dev_is_open, dev_open_event,
                                     dev_transport>>
          /\ UNCHANGED dev_cancel_req
    /\ UNCHANGED <<dev_in_error_state, dev_response, dev_open_pc, dev_close_pc,
                   dev_wire_next, dev_opens>>

\* A unit test switches the MockDevice fault state.
DevSetErrorState ==
    /\ UNCHANGED <<nonDev, dev_sensor, dev_caught>>
    /\ DevTaskLive
    /\ dev_in_error_state' = ~dev_in_error_state
    /\ UNCHANGED <<dev_pc, dev_loop_should_end, dev_is_open, dev_open_event,
                   dev_transport, dev_cancel_req, dev_line, dev_response, dev_open_pc,
                   dev_close_pc, dev_wire_next, dev_delivered, dev_opens>>

\* _telemetry_loop.cancel() by the owner of the device.
DevCancel ==
    /\ UNCHANGED <<nonDev, dev_sensor, dev_caught>>
    /\ DevTaskLive
    /\ ~dev_cancel_req
    /\ dev_cancel_req' = TRUE
    /\ UNCHANGED <<dev_pc, dev_loop_should_end, dev_is_open, dev_open_event,
                   dev_in_error_state, dev_transport, dev_line, dev_response,
                   dev_open_pc, dev_close_pc, dev_wire_next, dev_delivered, dev_opens>>

\* close(): request the end of the loop and await the task under
\* TELEMETRY_LOOP_FINISH_TIMEOUT.
DevClose ==
    /\ UNCHANGED <<nonDev, dev_sensor, dev_caught>>
    /\ dev_close_pc = "none"
    /\ dev_loop_should_end' = TRUE
    /\ dev_close_pc' = IF DevTaskEnded THEN "done" ELSE "waiting"
    /\ UNCHANGED <<dev_pc, dev_is_open, dev_open_event, dev_in_error_state,
                   dev_transport, dev_cancel_req, dev_line, dev_response, dev_open_pc,
                   dev_wire_next, dev_delivered, dev_opens>>

\* asyncio.timeout expires in close(): the awaited task is cancelled and
\* close() goes on waiting for it to end.
DevCloseTimeout ==
    /\ UNCHANGED <<nonDev, dev_sensor, dev_caught>>
    /\ dev_close_pc = "waiting"
    /\ DevTaskLive
    /\ dev_close_pc' = "cancel_wait"
    /\ dev_cancel_req' = TRUE
    /\ UNCHANGED <<dev_pc, dev_loop_should_end, dev_is_open, dev_open_event,
                   dev_in_error_state, dev_transport, dev_line, dev_response,
                   dev_open_pc, dev_wire_next, dev_delivered, dev_opens>>

\* A close() without the `await self._telemetry_loop` of its finally
\* clause: it returns as soon as the deadline has expired.
CloseReturns_AtTimeout(close_pc, ended) ==
    \/ close_pc = "waiting" /\ ended
    \/ close_pc = "cancel_wait"

\* When close() resumes: `await self._telemetry_loop` under
\* TELEMETRY_LOOP_FINISH_TIMEOUT resumes when the task has ended; after the
\* deadline the cancelled await resumes only when the task it cancelled has
\* ended, and the finally clause awaits a task that cancel() found live.
CloseReturns(close_pc, ended) ==
    /\ close_pc \in {"waiting", "cancel_wait"}
    /\ ended

\* The task has ended: close() returns.
DevCloseReturn ==
    /\ UNCHANGED <<nonDev, dev_sensor, dev_caught>>
    /\ CloseReturns(dev_close_pc, DevTaskEnded)
    /\ dev_close_pc' = "done"
    /\ UNCHANGED <<dev_pc, dev_loop_should_end, dev_is_open, dev_open_event,
                   dev_in_error_state, dev_transport, dev_cancel_req, dev_line,
                   dev_response, dev_open_pc, dev_wire_next, dev_delivered, dev_opens>>

DevNext ==
    \/ DevOpen \/ DevOpenReturn \/ DevRunBegin \/ DevBasicOpen \/ DevBasicClose
    \/ DevReadline
    \/ DevSleep \/ DevDecode \/ DevCallback \/ DevSetErrorState \/ DevCancel
    \/ DevClose \/ DevCloseTimeout \/ DevCloseReturn

\* A device constructed with a sensor of either kind.
DevInit ==
    /\ dev_pc = "none"
    /\ dev_loop_should_end = FALSE
    /\ dev_is_open = FALSE
    /\ dev_open_event = FALSE
    /\ dev_in_error_state = FALSE
    /\ dev_transport = "closed"
    /\ dev_cancel_req = FALSE
    /\ dev_line = NoLine
    /\ dev_response = OK
    /\ dev_open_pc = "none"
    /\ dev_close_pc = "none"
    /\ dev_wire_next = 1
    /\ dev_delivered = << >>
    /\ dev_opens = 0
    /\ dev_sensor \in SensorKinds
    /\ dev_caught = "none"
    /\ DCIdle /\ dc_max = 1 /\ ChIdle /\ LdIdle /\ ExtIdle

SpecDev == DevInit /\ [][DevNext]_vars

\* The read task is suspended inside the loop body.
DevInLoopBody == dev_pc \in {"readline", "sleep", "decode", "callback"}

\* C3: a CancelledError raised in the read task at the line read, the
\* error-state sleep, the decode or the callback makes the loop break there:
\* the task goes to its cleanup with loop_should_end set and does not return
\* to the loop body.
C3_CancelBreaksLoop ==
    [][(dev_cancel_req /\ DevInLoopBody /\ ~dev_cancel_req') =>
        (dev_pc' \in {"closing", "done"} /\ dev_loop_should_end')]_vars

\* The decode step: the read task leaves `await extract_telemetry(line)`
\* with no cancellation pending and no end of the loop requested.
DecodeStep ==
    /\ dev_pc = "decode"
    /\ dev_pc' # "decode"
    /\ ~dev_cancel_req
    /\ ~dev_loop_should_end

\* The read task is still in the loop with the device open.
StaysInLoop ==
    /\ dev_pc' \in {"readline", "sleep", "decode", "callback"}
    /\ dev_is_open'
    /\ dev_transport' = "open"

\* C12: when the decoder raises for a line, the read loop goes on: the
\* device stays open and the task stays in the loop.
C12_DecoderErrorContinues ==
    [][(DecodeStep /\ dev_line.kind = "bad") => StaysInLoop]_vars

\* C13: when readline() exceeded the read deadline or failed with an I/O
\* error, the iteration that follows keeps the read task in the loop with
\* the transport open.
C13_ReadFailureContinues ==
    [][(DecodeStep /\ dev_caught \in {"timeout", "io_error"}) => StaysInLoop]_vars

\* C10: whenever the read task has ended (normally, by an exception or by
\* cancellation) the transport is released and is_open is false.
C10_EndedTaskReleasedTransport ==
    DevTaskEnded => (dev_transport = "closed" /\ ~dev_is_open)

\* The wire ids of the delivered readings that have a line, in the order of
\* their delivery.
RECURSIVE WireIds(_)
WireIds(delivered) ==
    IF delivered = << >> THEN << >>
    ELSE IF Head(delivered).id > 0
         THEN <<Head(delivered).id>> \o WireIds(Tail(delivered))
         ELSE WireIds(Tail(delivered))

StrictlyIncreasing(ids) ==
    \A i, j \in DOMAIN ids : i < j => ids[i] < ids[j]

\* The line in flight is given up: it was read from the wire, it is no longer
\* the line being handled, and it is not among the delivered readings.
LineGivenUp ==
    /\ dev_line.id > 0
    /\ dev_line' # dev_line
    /\ \A i \in DOMAIN dev_delivered' : dev_delivered'[i].id # dev_line.id

\* C22: the readings are delivered to the callback in the order in which
\* their lines were read from the wire and none is delivered twice (the wire
\* ids of the delivered readings increase strictly); none is dropped: a
\* line that was read is given up undelivered only by a step in which the
\* read task leaves the loop (cancellation, or the decoder or the callback
\* raising), never while the loop goes on to the next line.
C22_DeliveredInOrderOnce ==
    /\ [](StrictlyIncreasing(WireIds(dev_delivered)))
    /\ [][LineGivenUp => dev_pc' \notin {"readline", "sleep", "decode", "callback"}]_vars

\* Two lines were read and both were delivered, with the reading of a failed
\* read delivered between them.
C22_Witness ==
    /\ Len(dev_delivered) = 3
    /\ dev_delivered[1].id = 1
    /\ dev_delivered[2].id = 0
    /\ dev_delivered[3].id = 2

\* C40: once close() has returned the read task of that open has ended,
\* and no reading is delivered to the callback until the device is opened
\* again.
C40_ClosedMeansReadTaskDone ==
    /\ [](dev_close_pc = "done" => dev_pc \in {"none", "done", "failed", "cancelled"})
    /\ [][(dev_close_pc = "done" /\ dev_close_pc' = "done") =>
            dev_delivered' = dev_delivered]_vars

\* close() has returned for a device that was opened and had delivered a
\* reading; its read task left the loop.
C40_Witness ==
    /\ dev_close_pc = "done"
    /\ dev_opens >= 1
    /\ dev_pc = "done"
    /\ Len(dev_delivered) >= 1

\* The event loop runs every task that is ready: the steps of the read task
\* up to the loop body, and the resumption of open(). Nothing obliges the
\* owner to call open(), close() or cancel().
SpecDevFair ==
    /\ SpecDev
    /\ WF_vars(DevRunBegin)
    /\ WF_vars(DevBasicOpen)
    /\ WF_vars(DevBasicClose)
    /\ WF_vars(DevOpenReturn)

\* open() is suspended in `await self.open_event.wait()` and nobody has
\* called close() or cancelled the read task.
OpenUndisturbed ==
    /\ dev_open_pc = "waiting"
    /\ dev_close_pc = "none"
    /\ ~dev_cancel_req

\* C31: a call to open() that is waiting for the transport ends: it is
\* resumed (the transport was opened) or it raises (basic_open failed),
\* unless close() or a cancellation of the read task intervenes.
C31_OpenTerminates ==
    OpenUndisturbed ~>
        \/ dev_open_pc \in {"woken", "done", "raised"}
        \/ dev_close_pc # "none"
        \/ dev_cancel_req

(***************************************************************************)
(*              SocketServer  /  AbstractCommandHandler                    *)
(*                                                                         *)
(* read_loop handles one command at a time, so one action is one command.  *)
(* The dispatch keys Command.START and Command.STOP are "start" and        *)
(* "stop". A configuration is the sequence of the sensor types of its      *)
(* devices.                                                                *)
(***************************************************************************)

\* The enum of sensor_type in CONFIG_SCHEMA.
SchemaSensorTypes == {"CSAT3B", "EFM100C", "HX85A", "HX85BA", "LD250",
                      "Temperature", "Windsonic"}

\* The sensor types get_sensor returns a sensor for; it raises for every
\* other one.
SupportedSensorTypes == {"HX85A", "HX85BA", "Temperature"}

\* The sensor types a client puts in a configuration.
ConfigSensorTypes == {"Temperature", "LD250", "Bogus"}

Configurations ==
    UNION {[1..n -> ConfigSensorTypes] : n \in 0..MaxConfigLen}

\* jsonschema.validate(configuration, CONFIG_SCHEMA): "devices" has
\* minItems 1 and "items" is a one-element list, which in draft-07 constrains
\* the first device only.
Validates(cfg) == Len(cfg) >= 1 /\ cfg[1] \in SchemaSensorTypes

Response(code) == [kind |-> "response", code |-> code]
TelemetryFrame == [kind |-> "telemetry", code |-> OK]

\* Mutant of ConfigureResult: the configuration is stored before it is
\* validated.
ConfigureResult_StoreFirst(started, stored, cfg) ==
    IF started
    THEN [code |-> ALREADY_STARTED, configuration |-> stored]
    ELSE IF ~Validates(cfg)
    THEN [code |-> INVALID_CONFIGURATION,
          configuration |-> [set |-> TRUE, devices |-> cfg]]
    ELSE [code |-> OK, configuration |-> [set |-> TRUE, devices |-> cfg]]

\* Mutant of ConfigureResult: configure without the test of self._started.
ConfigureResult_NoStartedTest(started, stored, cfg) ==
    IF ~Validates(cfg)
    THEN [code |-> INVALID_CONFIGURATION, configuration |-> stored]
    ELSE [code |-> OK, configuration |-> [set |-> TRUE, devices |-> cfg]]

\* configure: the response code and self._configuration afterwards.
ConfigureResult(started, stored, cfg) ==
    IF started
    THEN [code |-> ALREADY_STARTED, configuration |-> stored]
    ELSE IF ~Validates(cfg)
    THEN [code |-> INVALID_CONFIGURATION, configuration |-> stored]
    ELSE [code |-> OK, configuration |-> [set |-> TRUE, devices |-> cfg]]

\* The for loop of start_sending_telemetry from device i on. get_device
\* raises for an unsupported sensor type; device.open() never returns when
\* basic_open raises (hangAt is the device that happens to).
RECURSIVE StartLoop(_, _, _, _)
StartLoop(types, i, hangAt, st) ==
    IF i > Len(types) THEN [st EXCEPT !.outcome = "ok"]
    ELSE IF types[i] \notin SupportedSensorTypes THEN [st EXCEPT !.outcome = "raised"]
    ELSE LET d == st.next
             st1 == [st EXCEPT !.devices = Append(@, d), !.next = d + 1]
         IN  IF i = hangAt
             THEN [st1 EXCEPT !.outcome = "hung"]
             ELSE StartLoop(types, i + 1, hangAt, [st1 EXCEPT !.open = @ \cup {d}])

\* Mutant of StopResult: the device list is cleared without closing the
\* devices.
StopResult_NoClose(started, devices, open) ==
    IF ~started
    THEN [code |-> NOT_STARTED, started |-> started, devices |-> devices, open |-> open]
    ELSE [code |-> OK, started |-> FALSE, devices |-> << >>, open |-> open]

\* stop_sending_telemetry: CommandError(NOT_STARTED) when not started,
\* otherwise every device of self._devices is popped and closed.
StopResult(started, devices, open) ==
    IF ~started
    THEN [code |-> NOT_STARTED, started |-> started, devices |-> devices, open |-> open]
    ELSE [code |-> OK, started |-> FALSE, devices |-> << >>,
          open |-> open \ {devices[i] : i \in DOMAIN devices}]

\* disconnect(), called for a disconnect command or by the except clause of
\* read_loop. stop_sending_telemetry comes first: when it raises, the
\* except clause calls disconnect() once more, which raises again, and the
\* read loop task ends with the client still connected. Otherwise the read
\* loop task is cancelled and the client closed.
Disconnect(started, devices, open) ==
    LET r == StopResult(started, devices, open)
    IN  /\ ch_started' = r.started
        /\ ch_devices' = r.devices
        /\ ch_open' = r.open
        /\ IF r.code # OK
           THEN srv_loop' = "failed" /\ UNCHANGED srv_connected
           ELSE srv_loop' = "cancelled" /\ srv_connected' = FALSE

\* read_loop has read a command line.
CanRead == srv_connected /\ srv_loop = "reading" /\ ch_last.seq < MaxCommands

Read(cmd) == ch_last' = [seq |-> ch_last.seq + 1, cmd |-> cmd]

\* `await self._callback(response)`: SocketServer.write.
Respond(code) ==
    /\ Len(srv_out) < MaxOut
    /\ srv_out' = Append(srv_out, Response(code))

\* connect_callback: a client has connected, read_loop_task is created.
SrvClientConnect ==
    /\ UNCHANGED nonCH
    /\ srv_running
    /\ ~srv_connected
    /\ srv_connected' = TRUE
    /\ srv_loop' = "reading"
    /\ srv_out' = << >>
    /\ UNCHANGED <<srv_running, ch_configuration, ch_started, ch_devices, ch_open,
                   ch_next_dev, ch_last>>

\* handle_command("configure", configuration=cfg)
SrvConfigure ==
    /\ UNCHANGED nonCH
    /\ CanRead
    /\ Read("configure")
    /\ \E cfg \in Configurations :
          LET r == ConfigureResult(ch_started, ch_configuration, cfg)
          IN  /\ ch_configuration' = r.configuration
              /\ Respond(r.code)
    /\ UNCHANGED <<srv_running, srv_connected, srv_loop, ch_started, ch_devices,
                   ch_open, ch_next_dev>>

\* handle_command("start")
SrvStart ==
    /\ UNCHANGED nonCH
    /\ CanRead
    /\ Read("start")
    /\ IF ~ch_configuration.set
       THEN /\ Respond(NOT_CONFIGURED)
            /\ UNCHANGED <<srv_connected, srv_loop, ch_started, ch_devices, ch_open,
                           ch_next_dev>>
       ELSE \E hangAt \in 0..Len(ch_configuration.devices) :
              LET r == StartLoop(ch_configuration.devices, 1, hangAt,
                                 [devices |-> << >>, open |-> ch_open,
                                  next |-> ch_next_dev, outcome |-> "ok"])
              IN  /\ r.next <= MaxDevices + 1
                  /\ ch_next_dev' = r.next
                  /\ CASE r.outcome = "ok" ->
                            /\ ch_started' = TRUE
                            /\ ch_devices' = r.devices
                            /\ ch_open' = r.open
                            /\ Respond(OK)
                            /\ UNCHANGED <<srv_connected, srv_loop>>
                       [] r.outcome = "hung" ->
                            /\ ch_devices' = r.devices
                            /\ ch_open' = r.open
                            /\ srv_loop' = "hung"
                            /\ UNCHANGED <<ch_started, srv_connected, srv_out>>
                       [] r.outcome = "raised" ->
                            \* handle_command re-raises; read_loop disconnects
                            /\ Disconnect(ch_started, r.devices, r.open)
                            /\ UNCHANGED srv_out
    /\ UNCHANGED <<srv_running, ch_configuration>>

\* handle_command("stop")
SrvStop ==
    /\ UNCHANGED nonCH
    /\ CanRead
    /\ Read("stop")
    /\ LET r == StopResult(ch_started, ch_devices, ch_open)
       IN  /\ ch_started' = r.started
           /\ ch_devices' = r.devices
           /\ ch_open' = r.open
           /\ Respond(r.code)
    /\ UNCHANGED <<srv_running, srv_connected, srv_loop, ch_configuration, ch_next_dev>>

\* The "disconnect" command.
SrvDisconnectCmd ==
    /\ UNCHANGED nonCH
    /\ CanRead
    /\ Read("disconnect")
    /\ Disconnect(ch_started, ch_devices, ch_open)
    /\ UNCHANGED <<srv_running, srv_out, ch_configuration, ch_next_dev>>

\* The "exit" command: the server is closed.
SrvExitCmd ==
    /\ UNCHANGED nonCH
    /\ CanRead
    /\ Read("exit")
    /\ srv_running' = FALSE
    /\ srv_connected' = FALSE
    /\ srv_loop' = "done"
    /\ UNCHANGED <<srv_out, ch_configuration, ch_started, ch_devices, ch_open, ch_next_dev>>

\* A command that is not in dispatch_dict: KeyError in handle_command, then
\* the except clause of read_loop.
SrvUnknownCmd ==
    /\ UNCHANGED nonCH
    /\ CanRead
    /\ Read("unknown")
    /\ Disconnect(ch_started, ch_devices, ch_open)
    /\ UNCHANGED <<srv_running, srv_out, ch_configuration, ch_next_dev>>

\* An open device passes a reading to the callback (SocketServer.write),
\* which writes it when a client is connected.
ChTelemetry ==
    /\ UNCHANGED nonCH
    /\ ch_open # {}
    /\ srv_connected
    /\ Len(srv_out) < MaxOut
    /\ srv_out' = Append(srv_out, TelemetryFrame)
    /\ UNCHANGED <<srv_running, srv_connected, srv_loop, ch_configuration, ch_started,
                   ch_devices, ch_open, ch_next_dev, ch_last>>

CHNext ==
    \/ SrvClientConnect \/ SrvConfigure \/ SrvStart \/ SrvStop
    \/ SrvDisconnectCmd \/ SrvExitCmd \/ SrvUnknownCmd \/ ChTelemetry

CHInit == ChIdle /\ DCIdle /\ dc_max = 1 /\ DevIdle /\ LdIdle /\ ExtIdle

SpecCH == CHInit /\ [][CHNext]_vars

\* The step handles the command cmd.
Handles(cmd) == ch_last'.seq # ch_last.seq /\ ch_last'.cmd = cmd

\* The step writes one frame to the client, a response.
WritesOneResponse ==
    /\ Len(srv_out') = Len(srv_out) + 1
    /\ srv_out'[Len(srv_out')].kind = "response"

\* C4: a start command received while telemetry is already started is
\* answered with ALREADY_STARTED.
C4_StartWhileStartedRefused ==
    [][(Handles("start") /\ ch_started) =>
        (WritesOneResponse /\ srv_out'[Len(srv_out')].code = ALREADY_STARTED)]_vars

\* C5: every configure, start or stop command the server reads makes it
\* write exactly one response frame to the client.
C5_OneResponsePerCommand ==
    [][(Handles("configure") \/ Handles("start") \/ Handles("stop")) =>
        WritesOneResponse]_vars

\* C6: a command answered with a code other than OK leaves the stored
\* configuration, the started flag, the device list and the open devices as
\* they were.
C6_RefusedCommandChangesNothing ==
    [][(WritesOneResponse /\ srv_out'[Len(srv_out')].code # OK) =>
        UNCHANGED <<ch_configuration, ch_started, ch_devices, ch_open>>]_vars

\* An invalid configure was refused while a configuration was stored.
C6_Witness ==
    /\ ch_last.cmd = "configure"
    /\ ch_configuration.set
    /\ Len(srv_out) > 0
    /\ srv_out[Len(srv_out)] = Response(INVALID_CONFIGURATION)

\* C7: a disconnect command, in any state of the command handler, closes
\* the client connection and leaves the server running.
C7_DisconnectClosesClient ==
    [][Handles("disconnect") => (~srv_connected' /\ srv_running')]_vars

\* C35: while the command handler is started no step changes the stored
\* configuration, and a configure command handled in that state is
\* answered with ALREADY_STARTED.
C35_ConfigurationFrozenWhileStarted ==
    /\ [][ch_started => ch_configuration' = ch_configuration]_vars
    /\ [][(Handles("configure") /\ ch_started) =>
            (WritesOneResponse /\ srv_out'[Len(srv_out')].code = ALREADY_STARTED)]_vars

\* A configure command was refused while telemetry was started.
C35_Witness ==
    /\ ch_started
    /\ ch_last.cmd = "configure"
    /\ Len(srv_out) > 0
    /\ srv_out[Len(srv_out)] = Response(ALREADY_STARTED)

\* The last response written to the client, NoResponse when there is none.
NoResponse == [kind |-> "none", code |-> OK]

LastResponse(out) ==
    LET R == {i \in DOMAIN out : out[i].kind = "response"}
    IN  IF R = {} THEN NoResponse ELSE out[CHOOSE i \in R : \A j \in R : j <= i]

\* The last command handled was a stop and it was answered with OK.
AfterStopOK == ch_last.cmd = "stop" /\ LastResponse(srv_out) = Response(OK)

\* C36: a stop command answered with OK leaves every device of the list of
\* the preceding start closed, the device list empty and the handler not
\* started; the configure or start command that follows is not refused
\* (configure is not answered ALREADY_STARTED, a start that is answered is
\* answered OK).
C36_StopReleasesDevices ==
    /\ [][(Handles("stop") /\ LastResponse(srv_out') = Response(OK)) =>
            /\ ch_devices' = << >>
            /\ ~ch_started'
            /\ \A i \in DOMAIN ch_devices : ch_devices[i] \notin ch_open']_vars
    /\ [][(AfterStopOK /\ Handles("configure")) =>
            LastResponse(srv_out').code # ALREADY_STARTED]_vars
    /\ [][(AfterStopOK /\ Handles("start") /\ WritesOneResponse) =>
            LastResponse(srv_out').code = OK]_vars

\* Four commands were answered with OK, the last one a start, and the
\* devices of an earlier start are closed: configure, start, stop, start.
C36_Witness ==
    /\ ch_last.cmd = "start"
    /\ ch_last.seq = 4
    /\ srv_out = <<Response(OK), Response(OK), Response(OK), Response(OK)>>
    /\ ch_started
    /\ Len(ch_devices) >= 1
    /\ ch_next_dev > Len(ch_devices) + 1
    /\ ch_open = {ch_devices[i] : i \in DOMAIN ch_devices}

\* C32: whenever the command handler is not started, none of the devices
\* it opened is open (running its read loop); this holds as well after a
\* start command that failed at one of several configured devices.
C32_NotStartedNoOpenDevice == ~ch_started => ch_open = {}

(***************************************************************************)
(*                          Ld250Processor                                 *)
(***************************************************************************)

\* What sensor_data[0] is: STRIKE_PREFIX, STATUS_PREFIX, NOISE_PREFIX or
\* anything else; "empty" is the empty list Ld250Sensor.extract_telemetry
\* returns for a line that matches none of its patterns.
LdFrameKinds == {"strike", "status", "noise", "unknown", "empty"}

\* `sensor_data[0]`, the first expression process_telemetry evaluates, raises
\* IndexError for an empty sequence.
FirstItemRaises(kind) == kind = "empty"

\* `self.strike_timer_task.done() and not self.strike_timer_task.cancelled()`
TimerDoneNotCancelled(timer) == timer \in {"initial_done", "elapsed"}

\* The set_write calls of the branch of process_telemetry taken for a frame:
\* process_ld250_strike writes evt_lightningStrike with the strike;
\* process_ld250_noise_or_status writes tel_lightningStrikeStatus and
\* evt_sensorStatus; an unknown prefix is logged.
BranchWrites(kind) ==
    CASE kind = "strike" -> <<"strike">>
      [] kind \in {"status", "noise"} -> <<"status", "sensorStatus">>
      [] OTHER -> << >>

\* process_ld250_strike cancels a running timer and starts a new one.
TimerAfterBranch(kind, timer) == IF kind = "strike" THEN "pending" ELSE timer

\* A tail of process_telemetry that writes the "clear" event whatever the
\* timer task is doing.
ClearWrites_Always(timer) == <<"clear">>

\* The tail of process_telemetry: the "clear" evt_lightningStrike
\* (correctedDistance = uncorrectedDistance = inf, bearing = 0).
ClearWrites(timer) == IF TimerDoneNotCancelled(timer) THEN <<"clear">> ELSE << >>

\* process_telemetry(timestamp, response_code, sensor_data)
LdProcessTelemetry ==
    /\ UNCHANGED nonLd
    /\ ld_frames < MaxLdFrames
    /\ ld_frames' = ld_frames + 1
    /\ \E kind \in LdFrameKinds :
          /\ ld_last' = kind
          /\ IF FirstItemRaises(kind)
             THEN /\ ld_raised' = "IndexError"
                  /\ UNCHANGED <<ld_timer, ld_log>>
             ELSE LET timer == TimerAfterBranch(kind, ld_timer)
                  IN  /\ ld_raised' = "none"
                      /\ ld_timer' = timer
                      /\ ld_log' = ld_log \o BranchWrites(kind) \o ClearWrites(timer)

\* asyncio.sleep(safe_interval) of strike_timer_task returns.
LdTimerElapses ==
    /\ UNCHANGED nonLd
    /\ ld_timer = "pending"
    /\ ld_timer' = "elapsed"
    /\ UNCHANGED <<ld_frames, ld_log, ld_last, ld_raised>>

LdNext == LdProcessTelemetry \/ LdTimerElapses

LdInit == LdIdle /\ DCIdle /\ dc_max = 1 /\ DevIdle /\ ChIdle /\ ExtIdle

SpecLd == LdInit /\ [][LdNext]_vars

\* Index in ld_log of the last strike written, 0 when there is none.
LastStrike ==
    LET S == {i \in DOMAIN ld_log : ld_log[i] = "strike"}
    IN  IF S = {} THEN 0 ELSE CHOOSE i \in S : \A j \in S : j <= i

ClearsSinceLastStrike ==
    Cardinality({i \in DOMAIN ld_log : i > LastStrike /\ ld_log[i] = "clear"})

\* C8: after a strike has armed the timer, at most one clear event is
\* written until the next strike: the frame processed after the timer has
\* elapsed writes it, the frames after that write none.
C8_SingleClearAfterElapse ==
    LastStrike > 0 => ClearsSinceLastStrike <= 1

\* A step that is a process_telemetry call.
LdCall == ld_frames' = ld_frames + 1

\* C27: an empty reading is ignored: the process_telemetry call for it
\* writes no topic and raises nothing.
C27_EmptyReadingIgnored ==
    [][(LdCall /\ ld_last' = "empty") =>
        (ld_log' = ld_log /\ ld_raised' = "none")]_vars

\* C33: every clear event written follows a strike event: none is written
\* for the status and noise frames processed before the first strike.
C33_ClearOnlyAfterStrike ==
    \A i \in DOMAIN ld_log :
        ld_log[i] = "clear" => \E j \in 1..(i - 1) : ld_log[j] = "strike"

(***************************************************************************)
(* BaseReadLoopDataClient.run with time: the rate limit between reads.     *)
(* Time is counted in hundredths of a second; ages stop counting at        *)
(* MaxAge, which is above every rate limit.                                *)
(***************************************************************************)
MaxAge == (IF MaxRateLimit > MIN_RATE_LIMIT THEN MaxRateLimit ELSE MIN_RATE_LIMIT) + 1

\* Mutant of RateLimit: the configured value without the floor.
RateLimit_NoFloor(cfg) == cfg

\* self.rate_limit = max(MIN_RATE_LIMIT, getattr(self.config, "rate_limit", ...))
RateLimit(cfg) == IF cfg > MIN_RATE_LIMIT THEN cfg ELSE MIN_RATE_LIMIT

\* `await rate_limit_task` returns once the sleep of the task is over.
RateLimitTaskDone(timer) == timer = 0

Older(age) ==
    IF age = NoCall THEN NoCall ELSE IF age[1] < MaxAge THEN <<age[1] + 1>> ELSE age

RLTaskEnded == rl_pc \in {"idle", "done", "failed", "cancelled"}

\* The run task goes to its next suspension point; when that is read_data,
\* rate_limit_task is created first and read_data is called.
RLGoto(pc) ==
    /\ rl_pc' = pc
    /\ IF pc = "read"
       THEN /\ rl_timer' = rl_rate_limit
            /\ rl_call_age' = <<0>>
            /\ rl_prev' = rl_succ_age
       ELSE UNCHANGED <<rl_timer, rl_call_age, rl_prev>>

\* The run task raises into `except Exception` of the try block.
RLRaiseInTry ==
    LET r == ExceptClause(rl_num_timeouts, FALSE)
    IN  /\ rl_num_timeouts' = r.num
        /\ rl_loop_should_end' = r.lse
        /\ rl_exc' = r.exc
        /\ RLGoto("disconnect")

\* The run task takes `except asyncio.CancelledError` of the try block.
RLCancelInTry ==
    /\ rl_loop_should_end' = TRUE
    /\ rl_exc' = "none"
    /\ RLGoto("disconnect")
    /\ UNCHANGED rl_num_timeouts

\* start(): clear loop_should_end and create the run task.
RLStart ==
    /\ UNCHANGED nonRL
    /\ rl_pc = "idle"
    /\ rl_stop_pc = "none"
    /\ rl_pc' = "start"
    /\ rl_loop_should_end' = FALSE
    /\ UNCHANGED <<rl_cfg, rl_rate_limit, rl_timer, rl_exc, rl_connected, rl_num_timeouts,
                   rl_cancel_req, rl_stop_pc, rl_call_age, rl_succ_age, rl_prev, rl_last_gap>>

\* First step of run(): reset the counter, enter the loop.
RLRunBegin ==
    /\ UNCHANGED nonRL
    /\ rl_pc = "start"
    /\ IF rl_cancel_req
       THEN /\ rl_pc' = "cancelled"
            /\ rl_cancel_req' = FALSE
            /\ UNCHANGED <<rl_num_timeouts, rl_timer, rl_call_age, rl_prev>>
       ELSE /\ rl_num_timeouts' = 0
            /\ RLGoto(LoopTop(rl_loop_should_end, rl_connected))
            /\ UNCHANGED rl_cancel_req
    /\ UNCHANGED <<rl_cfg, rl_rate_limit, rl_exc, rl_loop_should_end, rl_connected,
                   rl_stop_pc, rl_succ_age, rl_last_gap>>

\* `await self.connect()` and `await self.setup_reading()`.
RLConnect ==
    /\ UNCHANGED nonRL
    /\ rl_pc = "connect"
    /\ \/ /\ rl_cancel_req
          /\ rl_cancel_req' = FALSE
          /\ RLCancelInTry
          /\ UNCHANGED rl_connected
       \/ /\ ~rl_cancel_req
          /\ RLRaiseInTry
          /\ UNCHANGED <<rl_connected, rl_cancel_req>>
       \/ /\ ~rl_cancel_req
          /\ rl_connected' = TRUE
          /\ RLGoto(InnerLoop(rl_loop_should_end, TRUE))
          /\ UNCHANGED <<rl_num_timeouts, rl_loop_should_end, rl_exc, rl_cancel_req>>
    /\ UNCHANGED <<rl_cfg, rl_rate_limit, rl_stop_pc, rl_succ_age, rl_last_gap>>

\* `await self.read_data()`: it is cancelled, raises or returns; in each
\* case the finally clause then awaits rate_limit_task.
RLReadData ==
    /\ UNCHANGED nonRL
    /\ rl_pc = "read"
    /\ \/ /\ rl_cancel_req
          /\ rl_cancel_req' = FALSE
          /\ rl_exc' = "cancel"
          /\ UNCHANGED <<rl_connected, rl_num_timeouts, rl_succ_age, rl_last_gap>>
       \/ /\ ~rl_cancel_req
          /\ rl_exc' = "exc"
          /\ rl_connected' \in {rl_connected, FALSE}
          /\ UNCHANGED <<rl_cancel_req, rl_num_timeouts, rl_succ_age, rl_last_gap>>
       \/ /\ ~rl_cancel_req
          /\ rl_exc' = "none"
          /\ rl_num_timeouts' = 0
          /\ rl_succ_age' = rl_call_age
          /\ rl_last_gap' = rl_prev
          /\ UNCHANGED <<rl_cancel_req, rl_connected>>
    /\ rl_pc' = "rate_wait"
    /\ UNCHANGED <<rl_cfg, rl_rate_limit, rl_timer, rl_loop_should_end, rl_stop_pc,
                   rl_call_age, rl_prev>>

\* `finally: await rate_limit_task`, then the exception of read_data, if
\* any, or the test of the inner loop.
RLRateWait ==
    /\ UNCHANGED nonRL
    /\ rl_pc = "rate_wait"
    /\ \/ /\ rl_cancel_req
          /\ rl_cancel_req' = FALSE
          /\ RLCancelInTry
       \/ /\ ~rl_cancel_req
          /\ RateLimitTaskDone(rl_timer)
          /\ rl_exc = "cancel"
          /\ RLCancelInTry
          /\ UNCHANGED rl_cancel_req
       \/ /\ ~rl_cancel_req
          /\ RateLimitTaskDone(rl_timer)
          /\ rl_exc = "exc"
          /\ RLRaiseInTry
          /\ UNCHANGED rl_cancel_req
       \/ /\ ~rl_cancel_req
          /\ RateLimitTaskDone(rl_timer)
          /\ rl_exc = "none"
          /\ RLGoto(InnerLoop(rl_loop_should_end, rl_connected))
          /\ UNCHANGED <<rl_num_timeouts, rl_loop_should_end, rl_exc, rl_cancel_req>>
    /\ UNCHANGED <<rl_cfg, rl_rate_limit, rl_connected, rl_stop_pc, rl_succ_age, rl_last_gap>>

\* `finally: await self.disconnect()`, then the re-raise of a give-up, the
\* reconnect cool-down or the end of the outer loop.
RLDisconnect ==
    /\ UNCHANGED nonRL
    /\ rl_pc = "disconnect"
    /\ rl_connected' = FALSE
    /\ IF rl_cancel_req
       THEN /\ rl_pc' = "cancelled"
            /\ rl_cancel_req' = FALSE
       ELSE /\ rl_pc' = IF rl_exc = "raise" THEN "failed"
                        ELSE IF rl_loop_should_end THEN "done" ELSE "cooldown"
            /\ UNCHANGED rl_cancel_req
    /\ rl_exc' = "none"
    /\ UNCHANGED <<rl_cfg, rl_rate_limit, rl_timer, rl_loop_should_end, rl_num_timeouts,
                   rl_stop_pc, rl_call_age, rl_succ_age, rl_prev, rl_last_gap>>

\* `await asyncio.sleep(self.connect_timeout)`, then the outer loop.
RLCooldown ==
    /\ UNCHANGED nonRL
    /\ rl_pc = "cooldown"
    /\ IF rl_cancel_req
       THEN /\ rl_pc' = "cancelled"
            /\ rl_cancel_req' = FALSE
            /\ UNCHANGED <<rl_timer, rl_call_age, rl_prev>>
       ELSE /\ RLGoto(LoopTop(rl_loop_should_end, rl_connected))
            /\ UNCHANGED rl_cancel_req
    /\ UNCHANGED <<rl_cfg, rl_rate_limit, rl_exc, rl_loop_should_end, rl_connected,
                   rl_num_timeouts, rl_stop_pc, rl_succ_age, rl_last_gap>>

\* One hundredth of a second passes while the run task is suspended.
RLTick ==
    /\ UNCHANGED nonRL
    /\ ~RLTaskEnded
    /\ rl_timer' = IF rl_timer > 0 THEN rl_timer - 1 ELSE 0
    /\ rl_call_age' = Older(rl_call_age)
    /\ rl_succ_age' = Older(rl_succ_age)
    /\ UNCHANGED <<rl_pc, rl_cfg, rl_rate_limit, rl_exc, rl_loop_should_end, rl_connected,
                   rl_num_timeouts, rl_cancel_req, rl_stop_pc, rl_prev, rl_last_gap>>

\* stop(): request the end of the loop and wait for the run task.
RLStop ==
    /\ UNCHANGED nonRL
    /\ rl_stop_pc = "none"
    /\ rl_pc # "idle"
    /\ rl_loop_should_end' = TRUE
    /\ rl_stop_pc' = IF RLTaskEnded THEN "done" ELSE "waiting"
    /\ UNCHANGED <<rl_pc, rl_cfg, rl_rate_limit, rl_timer, rl_exc, rl_connected,
                   rl_num_timeouts, rl_cancel_req, rl_call_age, rl_succ_age, rl_prev,
                   rl_last_gap>>

\* The grace period of stop() is over: the run task is cancelled.
RLStopTimeout ==
    /\ UNCHANGED nonRL
    /\ rl_stop_pc = "waiting"
    /\ ~RLTaskEnded
    /\ rl_cancel_req' = TRUE
    /\ rl_stop_pc' = "cancel_wait"
    /\ UNCHANGED <<rl_pc, rl_cfg, rl_rate_limit, rl_timer, rl_exc, rl_loop_should_end,
                   rl_connected, rl_num_timeouts, rl_call_age, rl_succ_age, rl_prev,
                   rl_last_gap>>

\* stop() returns once the run task has ended.
RLStopReturn ==
    /\ UNCHANGED nonRL
    /\ rl_stop_pc \in {"waiting", "cancel_wait"}
    /\ RLTaskEnded
    /\ rl_stop_pc' = "done"
    /\ UNCHANGED <<rl_pc, rl_cfg, rl_rate_limit, rl_timer, rl_exc, rl_loop_should_end,
                   rl_connected, rl_num_timeouts, rl_cancel_req, rl_call_age, rl_succ_age,
                   rl_prev, rl_last_gap>>

RLNext ==
    \/ RLStart \/ RLRunBegin \/ RLConnect \/ RLReadData \/ RLRateWait
    \/ RLDisconnect \/ RLCooldown \/ RLTick
    \/ RLStop \/ RLStopTimeout \/ RLStopReturn

\* A client constructed with any configured rate limit.
RLInit ==
    /\ rl_pc = "idle"
    /\ rl_cfg \in 0..MaxRateLimit
    /\ rl_rate_limit = RateLimit(rl_cfg)
    /\ rl_timer = 0
    /\ rl_exc = "none"
    /\ rl_loop_should_end = FALSE
    /\ rl_connected = FALSE
    /\ rl_num_timeouts = 0
    /\ rl_cancel_req = FALSE
    /\ rl_stop_pc = "none"
    /\ rl_call_age = NoCall
    /\ rl_succ_age = NoCall
    /\ rl_prev = NoCall
    /\ rl_last_gap = NoCall
    /\ RestRLIdle

SpecRL == RLInit /\ [][RLNext]_vars

\* C14: the calls of any two read_data that returned are at least the rate
\* limit apart, the rate limit being the configured value or 0.05 s when
\* the configured value is below it.
C14_RateLimitBetweenReads ==
    rl_last_gap # NoCall =>
        /\ rl_last_gap[1] >= rl_cfg
        /\ rl_last_gap[1] >= MIN_RATE_LIMIT

\* Two reads that returned, called exactly the floor apart under a
\* configured rate limit below the floor.
C14_Witness ==
    /\ rl_last_gap = <<MIN_RATE_LIMIT>>
    /\ rl_cfg < MIN_RATE_LIMIT
    /\ rl_pc = "rate_wait"
    /\ rl_exc = "none"

(***************************************************************************)
(* AirFlowAccumulator. A good sample is represented by its timestamp, the  *)
(* number of the add_sample call; the statistics of a report of good data  *)
(* are not computed ("stat").                                              *)
(***************************************************************************)
\* do_report: max(len(self.speed), self.num_bad_samples) >= self.num_samples
DoReport(timestamp, bad, n) ==
    (IF Len(timestamp) > bad THEN Len(timestamp) ELSE bad) >= n

\* A get_topic_kwargs that reports good data without calling clear().
GetTopicKwargs_NoClear(timestamp, bad, n) ==
    IF timestamp = << >>
    THEN [result |-> [kind |-> "raised", timestamp |-> 0, direction |-> "none",
                      speed |-> "none"],
          timestamp |-> timestamp, bad |-> bad]
    ELSE IF Len(timestamp) >= n
    THEN [result |-> [kind |-> "report", timestamp |-> timestamp[Len(timestamp)],
                      direction |-> "stat", speed |-> "stat"],
          timestamp |-> timestamp, bad |-> bad]
    ELSE IF bad >= n
    THEN [result |-> [kind |-> "report", timestamp |-> timestamp[Len(timestamp)],
                      direction |-> "-1", speed |-> "nan"],
          timestamp |-> << >>, bad |-> 0]
    ELSE [result |-> [kind |-> "empty", timestamp |-> 0, direction |-> "none",
                      speed |-> "none"],
          timestamp |-> timestamp, bad |-> bad]

\* get_topic_kwargs: the value returned (kind "raised": the IndexError of
\* self.timestamp[-1] on an empty list, logged and raised again) and the
\* accumulated data after the call.
GetTopicKwargs(timestamp, bad, n) ==
    IF timestamp = << >>
    THEN [result |-> [kind |-> "raised", timestamp |-> 0, direction |-> "none",
                      speed |-> "none"],
          timestamp |-> timestamp, bad |-> bad]
    ELSE IF Len(timestamp) >= n
    THEN [result |-> [kind |-> "report", timestamp |-> timestamp[Len(timestamp)],
                      direction |-> "stat", speed |-> "stat"],
          timestamp |-> << >>, bad |-> 0]
    ELSE IF bad >= n
    THEN [result |-> [kind |-> "report", timestamp |-> timestamp[Len(timestamp)],
                      direction |-> "-1", speed |-> "nan"],
          timestamp |-> << >>, bad |-> 0]
    ELSE [result |-> [kind |-> "empty", timestamp |-> 0, direction |-> "none",
                      speed |-> "none"],
          timestamp |-> timestamp, bad |-> bad]

\* add_sample(timestamp, speed, direction, isok)
AccAddSample ==
    /\ UNCHANGED nonAcc
    /\ acc_adds < MaxAdds
    /\ acc_adds' = acc_adds + 1
    /\ \E isok \in BOOLEAN :
          IF isok
          THEN /\ acc_timestamp' = Append(acc_timestamp, acc_adds')
               /\ UNCHANGED acc_num_bad_samples
          ELSE /\ acc_num_bad_samples' = acc_num_bad_samples + 1
               /\ UNCHANGED acc_timestamp
    /\ UNCHANGED <<acc_num_samples, acc_result, acc_gets>>

\* get_topic_kwargs()
AccGetTopicKwargs ==
    /\ UNCHANGED nonAcc
    /\ acc_gets < MaxGets
    /\ acc_gets' = acc_gets + 1
    /\ LET r == GetTopicKwargs(acc_timestamp, acc_num_bad_samples, acc_num_samples)
       IN  /\ acc_result' = r.result
           /\ acc_timestamp' = r.timestamp
           /\ acc_num_bad_samples' = r.bad
    /\ UNCHANGED <<acc_num_samples, acc_adds>>

\* clear()
AccClear ==
    /\ UNCHANGED nonAcc
    /\ acc_timestamp # << >> \/ acc_num_bad_samples # 0
    /\ acc_timestamp' = << >>
    /\ acc_num_bad_samples' = 0
    /\ UNCHANGED <<acc_num_samples, acc_result, acc_adds, acc_gets>>

AccNext == AccAddSample \/ AccGetTopicKwargs \/ AccClear

\* An accumulator constructed with any accepted num_samples.
AccInit ==
    /\ acc_num_samples \in MinNumSamples..MaxNumSamples
    /\ acc_timestamp = << >>
    /\ acc_num_bad_samples = 0
    /\ acc_result = NoResult
    /\ acc_adds = 0
    /\ acc_gets = 0
    /\ dc_max = 1
    /\ RestAccIdle

SpecAcc == AccInit /\ [][AccNext]_vars

\* A step that is a get_topic_kwargs call.
GetStep == acc_gets' = acc_gets + 1

\* C15: a get_topic_kwargs call while do_report is false returns an empty
\* mapping, raises nothing and leaves the samples and the bad-sample count
\* as they were.
C15_GetWithoutReportIsNoOp ==
    [][(GetStep /\ ~DoReport(acc_timestamp, acc_num_bad_samples, acc_num_samples))
        => /\ acc_result'.kind = "empty"
           /\ acc_timestamp' = acc_timestamp
           /\ acc_num_bad_samples' = acc_num_bad_samples]_vars

\* C16: a get_topic_kwargs call with num_samples bad samples or more and
\* fewer good samples returns the report of bad data (direction -1, NaN
\* speed) and clears the accumulator.
C16_BadPathReport ==
    [][(GetStep /\ acc_num_bad_samples >= acc_num_samples
                /\ Len(acc_timestamp) < acc_num_samples)
        => /\ acc_result'.kind = "report"
           /\ acc_result'.direction = "-1"
           /\ acc_result'.speed = "nan"
           /\ acc_timestamp' = << >>
           /\ acc_num_bad_samples' = 0]_vars

\* C25: at all times the number of kept good samples is at most
\* num_samples.
C25_KeptAtMostNumSamples == Len(acc_timestamp) <= acc_num_samples

\* C25, amended: add_sample keeps one more good sample per call, whatever
\* their number; after every get_topic_kwargs call fewer than num_samples
\* good samples are kept.
C25_KeptBelowNumSamplesAfterGet ==
    [][/\ (acc_adds' = acc_adds + 1) => Len(acc_timestamp') <= Len(acc_timestamp) + 1
       /\ GetStep => Len(acc_timestamp') < acc_num_samples]_vars

\* The first get_topic_kwargs call came after num_samples + 1 add_sample
\* calls, reported good data up to the last of them and cleared the
\* accumulator.
C25_Witness ==
    /\ acc_gets = 1
    /\ acc_adds = acc_num_samples + 1
    /\ acc_result.kind = "report"
    /\ acc_result.direction = "stat"
    /\ acc_result.timestamp = acc_adds
    /\ acc_timestamp = << >>

(***************************************************************************)
(* The decoders Csat3bSensor and WindsonicSensor. A line is a sequence of  *)
(* byte values; a decoded value is <<v>> and NaN is << >>.                 *)
(***************************************************************************)
\* ord() of the characters that occur in the lines.
Ord ==
    ("STX" :> 2) @@ ("ETX" :> 3) @@ ("LF" :> 10) @@ ("CR" :> 13) @@
    ("," :> 44) @@ ("." :> 46) @@
    ("0" :> 48) @@ ("1" :> 49) @@ ("2" :> 50) @@ ("3" :> 51) @@ ("4" :> 52) @@
    ("5" :> 53) @@ ("6" :> 54) @@ ("7" :> 55) @@ ("8" :> 56) @@ ("9" :> 57) @@
    ("A" :> 65) @@ ("F" :> 70) @@ ("M" :> 77) @@ ("Q" :> 81) @@
    ("a" :> 97) @@ ("f" :> 102)

Bytes(str) == [i \in 1..Len(str) |-> Ord[str[i]]]

IsDigit(b) == b >= Ord["0"] /\ b <= Ord["9"]

IsHexDigit(b) ==
    \/ IsDigit(b)
    \/ b >= Ord["a"] /\ b <= Ord["f"]
    \/ b >= Ord["A"] /\ b <= Ord["F"]

HexValue(b) ==
    IF IsDigit(b) THEN b - Ord["0"]
    ELSE IF b >= Ord["a"] THEN b - Ord["a"] + 10
    ELSE b - Ord["A"] + 10

\* int(str, base) of a string of digits of that base.
RECURSIVE IntOf(_, _)
IntOf(str, base) ==
    IF str = << >> THEN 0
    ELSE IntOf(SubSeq(str, 1, Len(str) - 1), base) * base + HexValue(str[Len(str)])

AllDigits(str) == str # << >> /\ \A i \in 1..Len(str) : IsDigit(str[i])

AllHexDigits(str) == str # << >> /\ \A i \in 1..Len(str) : IsHexDigit(str[i])

\* f"{value:0{width}x}"
RECURSIVE ToHex(_, _)
ToHex(value, width) ==
    IF width = 0 THEN << >>
    ELSE LET d == value % 16
         IN  Append(ToHex(value \div 16, width - 1),
                    IF d < 10 THEN Ord["0"] + d ELSE Ord["a"] + d - 10)

\* a ^ b of two non-negative integers.
RECURSIVE BitXor(_, _)
BitXor(a, b) ==
    IF a = 0 THEN b
    ELSE IF b = 0 THEN a
    ELSE 2 * BitXor(a \div 2, b \div 2) + ((a + b) % 2)

\* str.split(delimiter)
RECURSIVE Split(_, _)
Split(str, delimiter) ==
    IF \A i \in 1..Len(str) : str[i] # delimiter THEN <<str>>
    ELSE LET i == CHOOSE k \in 1..Len(str) :
                      str[k] = delimiter /\ \A j \in 1..(k - 1) : str[j] # delimiter
         IN  <<SubSeq(str, 1, i - 1)>> \o Split(SubSeq(str, i + 1, Len(str)), delimiter)

\* str.strip(char)
RECURSIVE Strip(_, _)
Strip(str, char) ==
    IF str = << >> THEN str
    ELSE IF str[1] = char THEN Strip(Tail(str), char)
    ELSE IF str[Len(str)] = char THEN Strip(SubSeq(str, 1, Len(str) - 1), char)
    ELSE str

\* delimiter.join(items)
RECURSIVE Join(_, _)
Join(items, delimiter) ==
    IF items = << >> THEN << >>
    ELSE IF Len(items) = 1 THEN items[1]
    ELSE items[1] \o <<delimiter>> \o Join(Tail(items), delimiter)

\* ---- Csat3bSensor
_NUM_VALUES == 7
_SHORT_RANGE == 256
_WORD_RANGE == 65536

\* seed = 0xAAAA
SignatureSeed == 43690

\* _NANS_OUTPUT = [nan, nan, nan, nan, 0, 0, 0]
_NANS_OUTPUT == [kind |-> "nans", values |-> << >>]

\* The loop of compute_signature over the characters of the string. b is
\* reduced to a byte before the carry is added, not after.
RECURSIVE SignatureLoop(_, _, _)
SignatureLoop(str, msb, lsb) ==
    IF str = << >> THEN ((msb * _SHORT_RANGE) + lsb) % _WORD_RANGE
    ELSE LET b0 == ((lsb * 2) + msb + str[1]) % _SHORT_RANGE
             b == IF (lsb \div 128) % 2 = 1 THEN b0 + 1 ELSE b0
         IN  SignatureLoop(Tail(str), lsb, b)

\* compute_signature(input_str, delimiter): the string up to its last
\* delimiter (without its last character when it has none).
compute_signature(input_str, delimiter) ==
    LET found == {i \in 1..Len(input_str) : input_str[i] = delimiter}
        last_index == IF found = {} THEN Len(input_str) - 1
                      ELSE (CHOOSE i \in found : \A j \in found : j <= i) - 1
    IN  SignatureLoop(SubSeq(input_str, 1, last_index),
                      SignatureSeed \div _SHORT_RANGE, SignatureSeed % _SHORT_RANGE)

\* Csat3bSensor.extract_telemetry. The fields x, y, z, t, d and c of the
\* lines of this model are strings of decimal digits; float() and int()
\* raise ValueError for an empty field.
Csat3bExtractTelemetry(line) ==
    LET line_items == Split(Strip(line, Ord["CR"]), Ord[","])
    IN  IF Len(line_items) = _NUM_VALUES
        THEN IF /\ \A i \in 1..6 : AllDigits(line_items[i])
                /\ AllHexDigits(line_items[7])
             THEN [kind |-> "values",
                   values |-> [i \in 1..7 |->
                                  IntOf(line_items[i], IF i = 7 THEN 16 ELSE 10)]]
             ELSE [kind |-> "raised", values |-> << >>]
        ELSE _NANS_OUTPUT

\* The values of the fields x, y, z, t, d, c of the lines of the model.
Csat3bFieldValues ==
    <<{"1", "7"}, {"2", "8"}, {"3"}, {"1", "9"}, {"0", "1"}, {"5", "6"}>>

Csat3bBodies ==
    {Bytes(<<x, ",", y, ",", z, ",", t, ",", d, ",", c>>) :
        x \in Csat3bFieldValues[1], y \in Csat3bFieldValues[2],
        z \in Csat3bFieldValues[3], t \in Csat3bFieldValues[4],
        d \in Csat3bFieldValues[5], c \in Csat3bFieldValues[6]}

\* The lines a CSAT3B sends: the signature is the one of the body or, after
\* a bit flip, another one; the first line after connecting may have lost
\* its head.
Csat3bLines ==
    {SubSeq(body, drop + 1, Len(body)) \o <<Ord[","]>>
        \o ToHex((compute_signature(body, Ord[","]) + flip) % _WORD_RANGE, 4)
        \o <<Ord["CR"]>> :
        body \in Csat3bBodies, flip \in {0, 1}, drop \in {0, 2}}

\* ---- WindsonicSensor
\* compute_checksum(checksum_string)
RECURSIVE compute_checksum(_)
compute_checksum(checksum_string) ==
    IF checksum_string = << >> THEN 0
    ELSE BitXor(compute_checksum(SubSeq(checksum_string, 1, Len(checksum_string) - 1)),
                checksum_string[Len(checksum_string)])

\* default_direction_str = "999"
default_direction_str == Bytes(<<"9", "9", "9">>)

\* re.search(self.telemetry_pattern, line) for a line of the length of a
\* frame with (n = 3) or without (n = 0) a wind direction:
\* ^\x02Q,(\d{3})?,(\d{3}\.\d{2}),M,(\d{2}),\x03([\da-fA-F]{2})\r\n$
TelemetryPatternMatches(line, n) ==
    /\ Len(line) = 21 + n
    /\ line[1] = Ord["STX"]
    /\ line[2] = Ord["Q"]
    /\ line[3] = Ord[","]
    /\ \A i \in 4..(3 + n) : IsDigit(line[i])
    /\ line[4 + n] = Ord[","]
    /\ \A i \in (5 + n)..(7 + n) : IsDigit(line[i])
    /\ line[8 + n] = Ord["."]
    /\ \A i \in (9 + n)..(10 + n) : IsDigit(line[i])
    /\ line[11 + n] = Ord[","]
    /\ line[12 + n] = Ord["M"]
    /\ line[13 + n] = Ord[","]
    /\ \A i \in (14 + n)..(15 + n) : IsDigit(line[i])
    /\ line[16 + n] = Ord[","]
    /\ line[17 + n] = Ord["ETX"]
    /\ \A i \in (18 + n)..(19 + n) : IsHexDigit(line[i])
    /\ line[20 + n] = Ord["CR"]
    /\ line[21 + n] = Ord["LF"]

\* WindsonicSensor.extract_telemetry. The speed is in hundredths of m/s.
WindsonicExtractTelemetry(line) ==
    IF TelemetryPatternMatches(line, 0) \/ TelemetryPatternMatches(line, 3)
    THEN LET n == Len(line) - 21
             direction_str == SubSeq(line, 4, 3 + n)
             speed_str == SubSeq(line, 5 + n, 10 + n)
             status == SubSeq(line, 14 + n, 15 + n)
             checksum_val == IntOf(SubSeq(line, 18 + n, 19 + n), 16)
             checksum_string ==
                 <<Ord["Q"], Ord[","]>> \o direction_str \o <<Ord[","]>> \o speed_str
                     \o <<Ord[","], Ord["M"], Ord[","]>> \o status \o <<Ord[","]>>
         IN  IF compute_checksum(checksum_string) # checksum_val
             THEN [kind |-> "values", values |-> << << >>, << >> >>]
             ELSE [kind |-> "values",
                   values |-> <<
                       <<IntOf(SubSeq(speed_str, 1, 3) \o SubSeq(speed_str, 5, 6), 10)>>,
                       IF direction_str = default_direction_str \/ direction_str = << >>
                       THEN << >> ELSE <<IntOf(direction_str, 10)>> >>]
    ELSE IF line = <<Ord["CR"], Ord["LF"]>>
    THEN [kind |-> "values", values |-> << << >>, << >> >>]
    ELSE [kind |-> "raised", values |-> << >>]

\* The body of a well-formed frame, between STX and ETX.
WindsonicBodies ==
    {Bytes(<<"Q", ",">> \o direction \o <<",">> \o speed \o <<",", "M", ",", "0", "0", ",">>) :
        direction \in {<<"0", "9", "0">>, << >>},
        speed \in {<<"0", "0", "1", ".", "5", "0">>}}

\* '<STX>Q,ddd,sss.ss,M,00,<ETX>checksum<CR><LF>'
WindsonicFrame(body) ==
    <<Ord["STX"]>> \o body \o <<Ord["ETX"]>> \o ToHex(compute_checksum(body), 2)
        \o <<Ord["CR"], Ord["LF"]>>

\* The frame with one byte of its body XORed with a mask.
Corrupted(body, pos, mask) ==
    [WindsonicFrame(body) EXCEPT ![1 + pos] = BitXor(@, mask)]

\* The line is handed to the decoder of the sensor.
SnExtractTelemetry ==
    /\ UNCHANGED nonSn
    /\ sn_output = NoOutput
    /\ sn_output' = IF sn_sensor = "Csat3b" THEN Csat3bExtractTelemetry(sn_line)
                    ELSE WindsonicExtractTelemetry(sn_line)
    /\ UNCHANGED <<sn_sensor, sn_line, sn_mask>>

SnNext == SnExtractTelemetry

\* A line of a CSAT3B, or a Windsonic frame with at most one byte of its
\* body changed.
SnInit ==
    /\ \/ /\ sn_sensor = "Csat3b"
          /\ sn_line \in Csat3bLines
          /\ sn_mask = 0
       \/ /\ sn_sensor = "Windsonic"
          /\ \E body \in WindsonicBodies, pos \in 1..18, mask \in 0..255 :
                /\ pos <= Len(body)
                /\ sn_mask = mask
                /\ sn_line = Corrupted(body, pos, mask)
    /\ sn_output = NoOutput
    /\ dc_max = 1
    /\ RestSnIdle

SpecSn == SnInit /\ [][SnNext]_vars

\* The signature a CSAT3B line of seven fields transmits differs from the
\* one recomputed over the fields before it.
WrongSignature(line) ==
    LET line_items == Split(Strip(line, Ord["CR"]), Ord[","])
    IN  /\ Len(line_items) = _NUM_VALUES
        /\ IntOf(line_items[7], 16)
              # compute_signature(Join(SubSeq(line_items, 1, 6), Ord[","]), Ord[","])

\* C17: the decoder returns the invalidated record, not the parsed values,
\* for a line of seven fields whose signature is wrong.
C17_WrongSignatureInvalidated ==
    (sn_sensor = "Csat3b" /\ sn_output # NoOutput /\ WrongSignature(sn_line))
        => sn_output = _NANS_OUTPUT

\* C18: a well-formed Windsonic frame with one byte of its body XORed with
\* a non-zero mask is decoded to [NaN, NaN].
C18_CorruptedByteDecodesToNaN ==
    (sn_sensor = "Windsonic" /\ sn_output # NoOutput /\ sn_mask # 0)
        => sn_output = [kind |-> "values", values |-> << << >>, << >> >>]

(***************************************************************************)
(* SiglentSSA3000xSpectrumAnalyzerDataClient: connect, setup_reading and   *)
(* read_data under the run loop of BaseReadLoopDataClient, which           *)
(* disconnects after an exception and connects again.                      *)
(***************************************************************************)
\* The numbers of data points of the replies of the model.
ReplyLengths ==
    {0, EXPECTED_NUMBER_OF_DATA_POINTS - 1, EXPECTED_NUMBER_OF_DATA_POINTS,
     EXPECTED_NUMBER_OF_DATA_POINTS + 1}

\* The branches of read_data on the number of data points of the reply.
ReadDataOutcome(len, have_seen_data) ==
    IF len < EXPECTED_NUMBER_OF_DATA_POINTS /\ ~have_seen_data THEN "discarded"
    ELSE IF len # EXPECTED_NUMBER_OF_DATA_POINTS THEN "raised"
    ELSE "written"

\* connect() and setup_reading().
SgConnect ==
    /\ UNCHANGED nonSg
    /\ sg_pc = "idle"
    /\ sg_connects < MaxSgConnects
    /\ sg_connects' = sg_connects + 1
    /\ sg_have_seen_data' = FALSE
    /\ sg_last' = NoReply
    /\ sg_pc' = "reading"
    /\ UNCHANGED sg_written

\* read_data(): the reply to the trace query arrives with some number of
\* data points, or the read times out.
SgReadData ==
    /\ UNCHANGED nonSg
    /\ sg_pc = "reading"
    /\ sg_last.n < MaxReplies
    /\ \/ \E len \in ReplyLengths :
             LET outcome == ReadDataOutcome(len, sg_have_seen_data)
             IN  /\ sg_last' = [n |-> sg_last.n + 1, len |-> len, outcome |-> outcome]
                 /\ sg_have_seen_data' = (sg_have_seen_data \/ outcome = "discarded")
                 /\ sg_written' = sg_written + (IF outcome = "written" THEN 1 ELSE 0)
                 /\ sg_pc' = IF outcome = "raised" THEN "failed" ELSE "reading"
       \/ /\ sg_have_seen_data' = FALSE
          /\ sg_pc' = "failed"
          /\ UNCHANGED <<sg_last, sg_written>>
    /\ UNCHANGED sg_connects

\* disconnect(), after an exception of read_data or at the end of the loop.
SgDisconnect ==
    /\ UNCHANGED nonSg
    /\ sg_pc \in {"reading", "failed"}
    /\ sg_pc' = "idle"
    /\ UNCHANGED <<sg_have_seen_data, sg_written, sg_last, sg_connects>>

SgNext == SgConnect \/ SgReadData \/ SgDisconnect

SgInit ==
    /\ sg_pc = "idle"
    /\ sg_have_seen_data = FALSE
    /\ sg_written = 0
    /\ sg_last = NoReply
    /\ sg_connects = 0
    /\ dc_max = 1
    /\ RestSgIdle

SpecSg == SgInit /\ [][SgNext]_vars

\* C19: after a connect only the first reply is discarded for being short;
\* every later reply that has not the expected number of data points makes
\* read_data raise.
C19_OnlyFirstReplyDiscarded ==
    /\ sg_last.outcome = "discarded" => sg_last.n = 1
    /\ (sg_last.n > 1 /\ sg_last.len # EXPECTED_NUMBER_OF_DATA_POINTS)
          => sg_last.outcome = "raised"

(***************************************************************************)
(* BaseDataClient.start_tasks and stop_tasks with two of its subclasses:   *)
(* MockDataClient, whose connect() and disconnect() sleep before they act  *)
(* and may raise, and the BaseReadLoopDataClient of common/, whose         *)
(* connect() and disconnect() only assign self._connected and never        *)
(* suspend. A callback scheduled by cancel() runs before a sleep that      *)
(* started earlier or at the same time is over.                            *)
(***************************************************************************)
\* Do connect() and disconnect() of the subclass suspend?
Suspends(kind) == kind = "Mock"

\* disconnect() past its sleep: raise disconnect_exception (start_tasks and
\* stop_tasks log it and continue) or clear connected.
AfterDisconnect(connected, raises) == IF raises THEN connected ELSE FALSE

\* start_tasks(), up to the first await that suspends.
BdStart ==
    /\ UNCHANGED nonBd
    /\ bd_calls < MaxBdCalls
    /\ bd_start_pc \in {"none", "returned", "raised"}
    /\ bd_stop_pc \in {"none", "returned"}
    /\ bd_run = "done"
    /\ bd_calls' = bd_calls + 1
    /\ IF Suspends(bd_kind)
       THEN /\ bd_start_pc' = "disconnect"
            /\ UNCHANGED <<bd_connected, bd_run>>
       ELSE /\ bd_connected' = TRUE
            /\ bd_run' = "running"
            /\ bd_start_pc' = "returned"
    /\ UNCHANGED <<bd_kind, bd_connect_raises, bd_disconnect_raises, bd_cancel_req,
                   bd_stop_pc, bd_stop_running>>

\* start_tasks(): disconnect() is over, connect() is awaited.
BdStartDisconnected ==
    /\ UNCHANGED nonBd
    /\ bd_start_pc = "disconnect"
    /\ ~bd_cancel_req
    /\ bd_connected' = AfterDisconnect(bd_connected, bd_disconnect_raises)
    /\ bd_start_pc' = "connect"
    /\ UNCHANGED <<bd_kind, bd_connect_raises, bd_disconnect_raises, bd_run, bd_cancel_req,
                   bd_stop_pc, bd_stop_running, bd_calls>>

\* start_tasks(): connect() is over; it raised, or the run task is created.
BdStartConnected ==
    /\ UNCHANGED nonBd
    /\ bd_start_pc = "connect"
    /\ ~bd_cancel_req
    /\ IF bd_connect_raises
       THEN /\ bd_start_pc' = "raised"
            /\ UNCHANGED <<bd_connected, bd_run>>
       ELSE /\ bd_connected' = TRUE
            /\ bd_run' = "running"
            /\ bd_start_pc' = "returned"
    /\ UNCHANGED <<bd_kind, bd_connect_raises, bd_disconnect_raises, bd_cancel_req,
                   bd_stop_pc, bd_stop_running, bd_calls>>

\* The run task is resumed with the CancelledError of run_task.cancel(), or
\* ends by itself (its loop ends with connected False, or it raises).
BdRunEnds ==
    /\ UNCHANGED nonBd
    /\ bd_run = "running"
    /\ \/ bd_cancel_req
       \/ bd_kind = "ReadLoop"
    /\ bd_run' = "done"
    /\ bd_cancel_req' = FALSE
    /\ UNCHANGED <<bd_kind, bd_connect_raises, bd_disconnect_raises, bd_connected,
                   bd_start_pc, bd_stop_pc, bd_stop_running, bd_calls>>

\* stop_tasks(), up to the first await that suspends: run_task.cancel(),
\* then `await self.disconnect()`.
BdStop ==
    /\ UNCHANGED nonBd
    /\ bd_calls < MaxBdCalls
    /\ bd_start_pc \in {"none", "returned", "raised"}
    /\ bd_stop_pc \in {"none", "returned"}
    /\ bd_calls' = bd_calls + 1
    /\ bd_stop_running' = (bd_run = "running")
    /\ bd_cancel_req' = (bd_run = "running")
    /\ IF Suspends(bd_kind)
       THEN /\ bd_stop_pc' = "disconnect"
            /\ UNCHANGED bd_connected
       ELSE /\ bd_connected' = FALSE
            /\ bd_stop_pc' = "returned"
    /\ UNCHANGED <<bd_kind, bd_connect_raises, bd_disconnect_raises, bd_run, bd_start_pc>>

\* stop_tasks(): disconnect() is over.
BdStopDisconnected ==
    /\ UNCHANGED nonBd
    /\ bd_stop_pc = "disconnect"
    /\ ~bd_cancel_req
    /\ bd_connected' = AfterDisconnect(bd_connected, bd_disconnect_raises)
    /\ bd_stop_pc' = "returned"
    /\ UNCHANGED <<bd_kind, bd_connect_raises, bd_disconnect_raises, bd_run, bd_cancel_req,
                   bd_start_pc, bd_stop_running, bd_calls>>

\* The test sets or clears connect_exception and disconnect_exception.
BdSetExceptions ==
    /\ UNCHANGED nonBd
    /\ bd_kind = "Mock"
    /\ bd_start_pc \in {"none", "returned", "raised"}
    /\ bd_stop_pc \in {"none", "returned"}
    /\ \E c \in BOOLEAN, d \in BOOLEAN :
          /\ <<c, d>> # <<bd_connect_raises, bd_disconnect_raises>>
          /\ bd_connect_raises' = c
          /\ bd_disconnect_raises' = d
    /\ UNCHANGED <<bd_kind, bd_connected, bd_run, bd_cancel_req, bd_start_pc, bd_stop_pc,
                   bd_stop_running, bd_calls>>

BdNext ==
    \/ BdStart \/ BdStartDisconnected \/ BdStartConnected \/ BdRunEnds
    \/ BdStop \/ BdStopDisconnected \/ BdSetExceptions

\* A client of either subclass, as constructed.
BdInit ==
    /\ bd_kind \in {"Mock", "ReadLoop"}
    /\ bd_connect_raises = FALSE
    /\ bd_disconnect_raises = FALSE
    /\ bd_connected = FALSE
    /\ bd_run = "done"
    /\ bd_cancel_req = FALSE
    /\ bd_start_pc = "none"
    /\ bd_stop_pc = "none"
    /\ bd_stop_running = FALSE
    /\ bd_calls = 0
    /\ dc_max = 1
    /\ RestBdIdle

SpecBd == BdInit /\ [][BdNext]_vars

\* C20: when a stop() that was called while the run task was running has
\* returned, the run task is done and the client is not connected.
C20_StopLeavesDoneAndDisconnected ==
    [][(bd_stop_pc # "returned" /\ bd_stop_pc' = "returned" /\ bd_stop_running')
        => (bd_run' = "done" /\ ~bd_connected')]_vars

(***************************************************************************)
(* The data client class registry of base_data_client.py: every class      *)
(* statement of a subclass of BaseDataClient runs __init_subclass__, and   *)
(* get_data_client_class looks a name up. The classes are those of the     *)
(* package that derive from this BaseDataClient, with the abstract methods *)
(* each declares and the methods each defines.                             *)
(***************************************************************************)
DataClientClasses ==
    [BaseDataClient |->
        [base |-> "ABC",
         abstract |-> {"get_config_schema", "descr", "connect", "disconnect", "run"},
         defines |-> {}],
     BaseReadLoopDataClient |->
        [base |-> "BaseDataClient",
         abstract |-> {"read_data"},
         defines |-> {"connect", "disconnect", "run"}],
     MockDataClient |->
        [base |-> "BaseDataClient",
         abstract |-> {},
         defines |-> {"get_config_schema", "descr", "connect", "disconnect", "run"}],
     TestReadLoopDataClient |->
        [base |-> "BaseReadLoopDataClient",
         abstract |-> {},
         defines |-> {"get_config_schema", "descr", "read_data"}]]

ClassNames == DOMAIN DataClientClasses

\* The names get_data_client_class is called with: the classes, and a class
\* name in lower case.
LookupNames == ClassNames \cup {"mockdataclient"}

\* The abstract methods a class is left with: those of its base that it
\* does not define, and those it declares.
RECURSIVE AbstractMethods(_)
AbstractMethods(c) ==
    IF c = "ABC" THEN {}
    ELSE (AbstractMethods(DataClientClasses[c].base) \ DataClientClasses[c].defines)
            \cup DataClientClasses[c].abstract

\* inspect.isabstract(cls)
isabstract(c) == AbstractMethods(c) # {}

\* __init_subclass__: the branch for an abstract class is `pass`, and the
\* two statements after the if register the class in every case.
init_subclass(registry, c) == registry \cup {c}

\* A class statement runs: the class exists, and when it derives from
\* BaseDataClient, BaseDataClient.__init_subclass__ is called with it.
RegDefineClass ==
    /\ UNCHANGED nonReg
    /\ \E c \in ClassNames \ reg_defined :
        /\ DataClientClasses[c].base \in reg_defined \cup {"ABC"}
        /\ reg_defined' = reg_defined \cup {c}
        /\ reg_registry' = IF DataClientClasses[c].base = "ABC"
                           THEN reg_registry
                           ELSE init_subclass(reg_registry, c)
    /\ UNCHANGED <<reg_result, reg_gets>>

\* get_data_client_class(class_name): the registered class, or KeyError.
\* None of the names is a key of ExternalDataClientModules.
RegGetDataClientClass ==
    /\ UNCHANGED nonReg
    /\ reg_gets < MaxRegGets
    /\ \E n \in LookupNames :
        reg_result' = [name |-> n,
                       outcome |-> IF n \in reg_registry THEN "class" ELSE "KeyError"]
    /\ reg_gets' = reg_gets + 1
    /\ UNCHANGED <<reg_defined, reg_registry>>

RegNext == RegDefineClass \/ RegGetDataClientClass

RegInit == RegIdle /\ RestRegIdle /\ dc_max = 1

SpecReg == RegInit /\ [][RegNext]_vars

\* C21: only concrete data client classes are registered: no abstract
\* subclass of BaseDataClient is a key of the registry, so that
\* get_data_client_class with the name of an abstract class raises KeyError.
C21_OnlyConcreteRegistered ==
    /\ \A c \in reg_registry : ~isabstract(c)
    /\ (reg_result.name \in ClassNames /\ isabstract(reg_result.name))
            => reg_result.outcome = "KeyError"

(***************************************************************************)
(* BaseDevice.open() called in any state of the device, with every _run    *)
(* task it creates. One turn of the inner loop of _run (read, decode,      *)
(* callback) is one step here; basic_close does not suspend                *)
(* (MockDevice).                                                           *)
(***************************************************************************)
OpTaskEnded(pc) == pc \in {"done", "failed", "cancelled"}

\* self._telemetry_loop is done: the done future of __init__, or the task
\* the last open() created has ended.
OpLoopDone == op_tasks = << >> \/ OpTaskEnded(op_tasks[Len(op_tasks)])

\* open_event.set(): every open() waiting on the event is woken.
Wake(calls) ==
    [i \in DOMAIN calls |->
        IF calls[i].state = "waiting" THEN [calls[i] EXCEPT !.state = "woken"]
        ELSE calls[i]]

\* `while not self.loop_should_end:` and the head of the try block: the
\* suspension point a _run task reaches next.
OpLoopTop(lse, open) ==
    IF lse THEN "done" ELSE IF ~open THEN "opening" ELSE "reading"

\* The finally clause of _run (open_event.clear(), basic_close,
\* is_open = False), then the exception leaving the task or the test of the
\* outer loop.
OpFinally(i, exc, lse) ==
    /\ op_open_event' = FALSE
    /\ op_is_open' = FALSE
    /\ op_loop_should_end' = lse
    /\ op_tasks' = [op_tasks EXCEPT ![i] = IF exc THEN "failed"
                                           ELSE OpLoopTop(lse, FALSE)]

\* Is the CancelledError of _telemetry_loop.cancel() due in task i?
OpCancelled(i) == op_cancel_req /\ i = Len(op_tasks)

\* open(): clear loop_should_end and open_event, create a _run task, wait
\* for open_event. There is no test of is_open and no raise statement.
\* (The owner of the device does not call open() while its close() runs.)
OpOpen ==
    /\ UNCHANGED nonOp
    /\ Len(op_calls) < MaxOpenCalls
    /\ op_close_pc = "none"
    /\ ~op_cancel_req
    /\ op_loop_should_end' = FALSE
    /\ op_open_event' = FALSE
    /\ op_tasks' = Append(op_tasks, "start")
    /\ op_calls' = Append(op_calls, [was_open |-> op_is_open, state |-> "waiting"])
    /\ UNCHANGED <<op_is_open, op_cancel_req, op_close_pc>>

\* An open() woken by open_event.set() returns.
OpOpenReturn ==
    /\ UNCHANGED nonOp
    /\ \E i \in DOMAIN op_calls :
        /\ op_calls[i].state = "woken"
        /\ op_calls' = [op_calls EXCEPT ![i].state = "returned"]
    /\ UNCHANGED <<op_is_open, op_loop_should_end, op_open_event, op_tasks,
                   op_cancel_req, op_close_pc>>

\* First step of a _run task: open_event.clear(), then the loop.
OpRunBegin ==
    /\ UNCHANGED nonOp
    /\ \E i \in DOMAIN op_tasks :
        /\ op_tasks[i] = "start"
        /\ IF OpCancelled(i)
           THEN /\ op_tasks' = [op_tasks EXCEPT ![i] = "cancelled"]
                /\ op_cancel_req' = FALSE
                /\ UNCHANGED op_open_event
           ELSE /\ op_open_event' = FALSE
                /\ op_tasks' = [op_tasks EXCEPT
                                   ![i] = OpLoopTop(op_loop_should_end, op_is_open)]
                /\ UNCHANGED op_cancel_req
    /\ UNCHANGED <<op_is_open, op_loop_should_end, op_calls, op_close_pc>>

\* `await self.basic_open()` of a _run task that found the device not open.
OpBasicOpen ==
    /\ UNCHANGED nonOp
    /\ \E i \in DOMAIN op_tasks :
        /\ op_tasks[i] = "opening"
        /\ \/ /\ OpCancelled(i)
              /\ op_cancel_req' = FALSE
              /\ OpFinally(i, FALSE, TRUE)
              /\ UNCHANGED op_calls
           \/ \* basic_open raises
              /\ ~OpCancelled(i)
              /\ OpFinally(i, TRUE, op_loop_should_end)
              /\ UNCHANGED <<op_cancel_req, op_calls>>
           \/ \* basic_open returns: is_open = True, open_event.set()
              /\ ~OpCancelled(i)
              /\ op_calls' = Wake(op_calls)
              /\ IF op_loop_should_end
                 THEN OpFinally(i, FALSE, TRUE)
                 ELSE /\ op_is_open' = TRUE
                      /\ op_open_event' = TRUE
                      /\ op_tasks' = [op_tasks EXCEPT ![i] = "reading"]
                      /\ UNCHANGED op_loop_should_end
              /\ UNCHANGED op_cancel_req
    /\ UNCHANGED op_close_pc

\* A _run task in the inner loop resumes: it is cancelled, its body raises,
\* or the test of the inner loop fails and the task goes to the finally
\* clause. (A turn that stays in the inner loop changes nothing here.)
OpRead ==
    /\ UNCHANGED nonOp
    /\ \E i \in DOMAIN op_tasks :
        /\ op_tasks[i] = "reading"
        /\ \/ /\ OpCancelled(i)
              /\ op_cancel_req' = FALSE
              /\ OpFinally(i, FALSE, TRUE)
           \/ \* the decoder or the callback raises
              /\ ~OpCancelled(i)
              /\ OpFinally(i, TRUE, op_loop_should_end)
              /\ UNCHANGED op_cancel_req
           \/ /\ ~OpCancelled(i)
              /\ ~(op_is_open /\ ~op_loop_should_end)
              /\ OpFinally(i, FALSE, op_loop_should_end)
              /\ UNCHANGED op_cancel_req
    /\ UNCHANGED <<op_calls, op_close_pc>>

\* close(): request the end of the loop and await self._telemetry_loop under
\* TELEMETRY_LOOP_FINISH_TIMEOUT.
OpClose ==
    /\ UNCHANGED nonOp
    /\ op_close_pc = "none"
    /\ op_tasks # << >>
    /\ op_loop_should_end' = TRUE
    /\ op_close_pc' = IF OpLoopDone THEN "none" ELSE "waiting"
    /\ UNCHANGED <<op_is_open, op_open_event, op_tasks, op_cancel_req, op_calls>>

\* asyncio.timeout expires in close(): the awaited task is cancelled.
OpCloseTimeout ==
    /\ UNCHANGED nonOp
    /\ op_close_pc = "waiting"
    /\ ~OpLoopDone
    /\ op_close_pc' = "cancel_wait"
    /\ op_cancel_req' = TRUE
    /\ UNCHANGED <<op_is_open, op_loop_should_end, op_open_event, op_tasks, op_calls>>

\* The awaited task has ended: close() returns.
OpCloseReturn ==
    /\ UNCHANGED nonOp
    /\ op_close_pc \in {"waiting", "cancel_wait"}
    /\ OpLoopDone
    /\ op_close_pc' = "none"
    /\ op_cancel_req' = FALSE
    /\ UNCHANGED <<op_is_open, op_loop_should_end, op_open_event, op_tasks, op_calls>>

OpNext ==
    \/ OpOpen \/ OpOpenReturn \/ OpRunBegin \/ OpBasicOpen \/ OpRead
    \/ OpClose \/ OpCloseTimeout \/ OpCloseReturn

OpInit == OpIdle /\ RestOpIdle /\ dc_max = 1

SpecOp == OpInit /\ [][OpNext]_vars

\* C24: an open() called on a device that already is open raises
\* RuntimeError.
C24_OpenOnOpenRaises ==
    \A i \in DOMAIN op_calls :
        op_calls[i].was_open => op_calls[i].state = "raised"

(***************************************************************************)
(* SocketServer.write called by the tasks of one server. A frame is the    *)
(* JSON text of the data followed by the terminator; a byte of the wire is *)
(* [f |-> frame id, b |-> part].                                           *)
(***************************************************************************)
\* st.encode() + tcpip.TERMINATOR
Encode(id) == <<[f |-> id, b |-> "json"], [f |-> id, b |-> "LF"]>>

\* A write() that hands the text and the terminator to the StreamWriter in
\* two calls with a drain between them.
Chunks_Split(frame) == <<SubSeq(frame, 1, 1), SubSeq(frame, 2, Len(frame))>>

\* The calls of self.writer.write made for one frame: a single call with the
\* whole encoded frame.
Chunks(frame) == <<frame>>

\* write(data) up to `await self.writer.drain()`: when connected, the first
\* writer.write call; when not connected, nothing is written and write()
\* returns. There is no lock around the two statements.
WrWrite ==
    /\ UNCHANGED nonWr
    /\ wr_next <= MaxWrFrames
    /\ \E t \in WrTasks :
        /\ wr_pc[t] = NotWriting
        /\ wr_next' = wr_next + 1
        /\ IF wr_connected
           THEN /\ wr_wire' = wr_wire \o Chunks(Encode(wr_next))[1]
                /\ wr_pc' = [wr_pc EXCEPT ![t] = [frame |-> wr_next, chunk |-> 2]]
           ELSE UNCHANGED <<wr_wire, wr_pc>>
    /\ UNCHANGED wr_connected

\* `await self.writer.drain()` resumes: it raises because the connection is
\* gone, or the next writer.write call is made, or write() returns.
WrDrain ==
    /\ UNCHANGED nonWr
    /\ \E t \in WrTasks :
        /\ wr_pc[t] # NotWriting
        /\ LET chunks == Chunks(Encode(wr_pc[t].frame))
               k == wr_pc[t].chunk
           IN  IF wr_connected /\ k <= Len(chunks)
               THEN /\ wr_wire' = wr_wire \o chunks[k]
                    /\ wr_pc' = [wr_pc EXCEPT ![t].chunk = k + 1]
               ELSE /\ wr_pc' = [wr_pc EXCEPT ![t] = NotWriting]
                    /\ UNCHANGED wr_wire
    /\ UNCHANGED <<wr_connected, wr_next>>

\* The client disconnects.
WrClientDisconnect ==
    /\ UNCHANGED nonWr
    /\ wr_connected
    /\ wr_connected' = FALSE
    /\ UNCHANGED <<wr_pc, wr_wire, wr_next>>

WrNext == WrWrite \/ WrDrain \/ WrClientDisconnect

WrInit == WrIdle /\ RestWrIdle /\ dc_max = 1

SpecWr == WrInit /\ [][WrNext]_vars

\* The tasks that are inside write().
Writing == {t \in WrTasks : wr_pc[t] # NotWriting}

\* The wire holds whole frames only, one after the other, in the order of
\* their write() calls.
WholeFramesInOrder ==
    /\ Len(wr_wire) % 2 = 0
    /\ \A i \in DOMAIN wr_wire :
        /\ wr_wire[i].b = (IF i % 2 = 1 THEN "json" ELSE "LF")
        /\ (i % 2 = 1) => wr_wire[i + 1].f = wr_wire[i].f
        /\ (i > 2) => wr_wire[i - 2].f < wr_wire[i].f

EfReports == {"none", "above", "below"}

\* The high_electric_field_timer_task after process_telemetry: a report
\* above the threshold cancels a running timer and starts a new one.
EfTimerAfter(report, timer) == IF report = "above" THEN "pending" ELSE timer

\* Mutant of EfWrites: the safe event is written for every report that is
\* not above the threshold, whatever the timer task is doing.
EfWrites_SafeAlways(report, timer) ==
    CASE report = "none" -> << >>
      [] report = "above" -> <<"high", "strength", "sensorStatus">>
      [] OTHER -> <<"safe", "strength", "sensorStatus">>

\* The set_write calls of process_telemetry: none without a report; with a
\* report evt_highElectricField with the threshold ("high") when it is above
\* the threshold, evt_highElectricField with NaN ("safe") when it is not and
\* the timer task is done, then tel_electricFieldStrength and
\* evt_sensorStatus.
EfWrites(report, timer) ==
    CASE report = "none" -> << >>
      [] report = "above" -> <<"high", "strength", "sensorStatus">>
      [] OTHER -> (IF timer \in {"initial_done", "elapsed"} THEN <<"safe">> ELSE << >>)
                    \o <<"strength", "sensorStatus">>

\* process_telemetry(timestamp, response_code, sensor_data)
EfProcessTelemetry ==
    /\ UNCHANGED nonEf
    /\ ef_frames < MaxEfFrames
    /\ ef_frames' = ef_frames + 1
    /\ \E report \in EfReports :
          /\ ef_timer' = EfTimerAfter(report, ef_timer)
          /\ ef_log' = ef_log \o EfWrites(report, ef_timer)

\* asyncio.sleep(safe_interval) of high_electric_field_timer_task returns.
EfTimerElapses ==
    /\ UNCHANGED nonEf
    /\ ef_timer = "pending"
    /\ ef_timer' = "elapsed"
    /\ UNCHANGED <<ef_frames, ef_log>>

EfNext == EfProcessTelemetry \/ EfTimerElapses

EfInit == EfIdle /\ RestEfIdle /\ dc_max = 1

\* The two processors side by side.
EvNext ==
    \/ EfProcessTelemetry \/ EfTimerElapses
    \/ LdProcessTelemetry \/ LdTimerElapses

SpecEv == EfInit /\ [][EvNext]_vars

\* The set_write calls a step adds to a log.
Added(log, log2) == {log2[i] : i \in (Len(log) + 1)..Len(log2)}

\* C29: during the safe interval that follows an alarm event (the timer of
\* the processor is pending) no new alarm event is emitted: no
\* evt_lightningStrike with a strike by Ld250Processor, no
\* evt_highElectricField with the threshold by Efm100cProcessor.
C29_NoAlarmDuringSafeInterval ==
    [][/\ ld_timer = "pending" => "strike" \notin Added(ld_log, ld_log')
       /\ ef_timer = "pending" => "high" \notin Added(ef_log, ef_log')]_vars

\* C29, amended: during the safe interval no "cleared" event is emitted
\* (the evt_lightningStrike with infinite distances, the
\* evt_highElectricField with NaN); an alarm condition met during the
\* interval does emit a new alarm event, and every alarm event leaves the
\* timer pending, so that the interval starts again.
C29_NoClearedDuringSafeInterval ==
    [][/\ ld_timer = "pending" => "clear" \notin Added(ld_log, ld_log')
       /\ ef_timer = "pending" => "safe" \notin Added(ef_log, ef_log')
       /\ "strike" \in Added(ld_log, ld_log') => ld_timer' = "pending"
       /\ "high" \in Added(ef_log, ef_log') => ef_timer' = "pending"]_vars

\* Each processor has emitted two alarm events in a row and its timer is
\* pending.
C29_Witness ==
    /\ ld_log = <<"strike", "strike">>
    /\ ld_timer = "pending"
    /\ ef_log = <<"high", "strength", "sensorStatus", "high", "strength", "sensorStatus">>
    /\ ef_timer = "pending"

\* C37: a process_telemetry call of Efm100cProcessor that writes the safe
\* event (evt_highElectricField with NaN) handles a report that is not above
\* the threshold (it writes no alarm event and starts no timer) and finds
\* the timer not running; the event is never written while the timer
\* started by the latest report above the threshold is pending.
C37_SafeOnlyWhenTimerNotRunning ==
    []["safe" \in Added(ef_log, ef_log') =>
        /\ ef_timer # "pending"
        /\ ef_timer' = ef_timer
        /\ "high" \notin Added(ef_log, ef_log')]_vars

\* An alarm event, then, the timer having elapsed, the safe event.
C37_Witness ==
    /\ ef_log = <<"high", "strength", "sensorStatus", "safe", "strength", "sensorStatus">>
    /\ ef_timer = "elapsed"

(***************************************************************************)
(* TcpipDataClient running BaseReadLoopDataClient.run, with one            *)
(* run_task.cancel() by the owner of the client. read_data has two         *)
(* suspension points: the readline under the stream lock ("read") and      *)
(* process_telemetry ("process").                                          *)
(***************************************************************************)
TcTaskEnded == tc_pc \in {"idle", "done", "failed", "cancelled"}

\* The run task goes to its next suspension point.
TcGoto(pc) ==
    /\ tc_pc' = pc
    /\ tc_connects' = tc_connects + (IF pc = "connect" THEN 1 ELSE 0)
    /\ tc_reads' = tc_reads + (IF pc = "read" THEN 1 ELSE 0)
    /\ tc_connects' <= MaxPasses
    /\ tc_reads' <= MaxReads

\* The run task raises into `except Exception` of the try block.
TcRaiseInTry ==
    LET r == ExceptClause(tc_num_timeouts, tc_timeout_event)
    IN  /\ tc_num_timeouts' = r.num
        /\ tc_timeout_event' = r.ev
        /\ tc_fails' = tc_fails + 1
        /\ tc_loop_should_end' = r.lse
        /\ tc_exc' = r.exc
        /\ TcGoto("disconnect")

\* The run task takes `except asyncio.CancelledError` of the try block.
TcCancelInTry ==
    /\ tc_loop_should_end' = TRUE
    /\ tc_exc' = "none"
    /\ TcGoto("disconnect")
    /\ UNCHANGED <<tc_num_timeouts, tc_timeout_event, tc_fails>>

\* The CancelledError of run_task.cancel() is raised at the await the task
\* is suspended in.
TcRaiseCancelled ==
    /\ tc_cancel_req
    /\ tc_cancel_req' = FALSE
    /\ tc_cancelled_at' = tc_pc

TcNotCancelled ==
    /\ ~tc_cancel_req
    /\ UNCHANGED <<tc_cancel_req, tc_cancelled_at>>

\* read_data returns: run resets the counter, then awaits the rate limit
\* task in the finally clause.
TcReadReturns ==
    /\ tc_num_timeouts' = 0
    /\ tc_timeout_event' = FALSE
    /\ tc_fails' = 0
    /\ tc_exc' = "none"
    /\ TcGoto("rate_wait")

\* read_data raises: the exception is pending while the finally clause
\* awaits the rate limit task.
TcReadRaises(e) ==
    /\ tc_exc' = e
    /\ TcGoto("rate_wait")
    /\ UNCHANGED <<tc_num_timeouts, tc_timeout_event, tc_fails>>

\* start(): clear loop_should_end and create the run task.
TcStart ==
    /\ UNCHANGED nonTc
    /\ tc_pc = "idle"
    /\ tc_loop_should_end' = FALSE
    /\ TcGoto("start")
    /\ UNCHANGED <<tc_connected, tc_num_timeouts, tc_timeout_event, tc_fails, tc_exc, tc_cancel_req, tc_cancelled_at>>

\* First step of run(). A task cancelled before its first step never runs
\* its body.
TcRunBegin ==
    /\ UNCHANGED nonTc
    /\ tc_pc = "start"
    /\ \/ /\ TcRaiseCancelled
          /\ TcGoto("cancelled")
          /\ UNCHANGED <<tc_num_timeouts, tc_timeout_event, tc_fails>>
       \/ /\ TcNotCancelled
          /\ tc_num_timeouts' = 0
          /\ tc_timeout_event' = FALSE
          /\ tc_fails' = 0
          /\ TcGoto(LoopTop(tc_loop_should_end, tc_connected))
    /\ UNCHANGED <<tc_loop_should_end, tc_connected, tc_exc>>

\* `await self.connect()` (the client's start_task under
\* COMMUNICATE_TIMEOUT) and setup_reading.
TcConnect ==
    /\ UNCHANGED nonTc
    /\ tc_pc = "connect"
    /\ \/ /\ TcRaiseCancelled
          /\ TcCancelInTry
          /\ UNCHANGED tc_connected
       \/ /\ TcNotCancelled
          /\ TcRaiseInTry
          /\ UNCHANGED tc_connected
       \/ /\ TcNotCancelled
          /\ tc_connected' = TRUE
          /\ TcGoto(InnerLoop(tc_loop_should_end, TRUE))
          /\ UNCHANGED <<tc_loop_should_end, tc_num_timeouts, tc_timeout_event, tc_fails, tc_exc>>

\* read_data: `line = (await self.client.readline()).decode()` under the
\* stream lock and COMMUNICATE_TIMEOUT. An exception raised here leaves
\* read_data. With a line read, extract_telemetry is awaited (the decoders
\* do not suspend; what they raise is caught by `except BaseException`,
\* logged, and read_data returns), then process_telemetry.
TcReadline ==
    /\ UNCHANGED nonTc
    /\ tc_pc = "read"
    /\ \/ /\ TcRaiseCancelled
          /\ TcReadRaises("cancel")
          /\ UNCHANGED tc_connected
       \/ \* the deadline expires, or the connection is lost
          /\ TcNotCancelled
          /\ TcReadRaises("exc")
          /\ tc_connected' \in {tc_connected, FALSE}
       \/ \* the decoder raises
          /\ TcNotCancelled
          /\ TcReadReturns
          /\ UNCHANGED tc_connected
       \/ /\ TcNotCancelled
          /\ TcGoto("process")
          /\ UNCHANGED <<tc_connected, tc_num_timeouts, tc_timeout_event, tc_fails, tc_exc>>
    /\ UNCHANGED tc_loop_should_end

\* read_data: `await self.processor.process_telemetry(...)` inside
\* `try: ... except BaseException: self.log.exception(...)`. Whatever is
\* raised at this await, the CancelledError of a cancellation included, is
\* caught and logged, and read_data returns.
TcProcess ==
    /\ UNCHANGED nonTc
    /\ tc_pc = "process"
    /\ \/ TcRaiseCancelled
       \/ TcNotCancelled
    /\ TcReadReturns
    /\ UNCHANGED <<tc_loop_should_end, tc_connected>>

\* `finally: await rate_limit_task` of the inner loop, then whatever was
\* pending: the exception of read_data, or the next turn of the inner loop.
TcRateWait ==
    /\ UNCHANGED nonTc
    /\ tc_pc = "rate_wait"
    /\ \/ /\ TcRaiseCancelled
          /\ TcCancelInTry
       \/ /\ TcNotCancelled
          /\ tc_exc = "cancel"
          /\ TcCancelInTry
       \/ /\ TcNotCancelled
          /\ tc_exc = "exc"
          /\ TcRaiseInTry
       \/ /\ TcNotCancelled
          /\ tc_exc = "none"
          /\ TcGoto(InnerLoop(tc_loop_should_end, tc_connected))
          /\ UNCHANGED <<tc_loop_should_end, tc_num_timeouts, tc_timeout_event, tc_fails, tc_exc>>
    /\ UNCHANGED tc_connected

\* `finally: await self.disconnect()`, then the re-raise of a give-up, the
\* reconnect cool-down or the end of the outer loop. A CancelledError raised
\* inside the finally clause leaves run().
TcDisconnect ==
    /\ UNCHANGED nonTc
    /\ tc_pc = "disconnect"
    /\ \/ /\ TcRaiseCancelled
          /\ TcGoto("cancelled")
          /\ UNCHANGED <<tc_connected, tc_exc>>
       \/ /\ TcNotCancelled
          /\ tc_connected' = FALSE
          /\ tc_exc' = "none"
          /\ TcGoto(IF ~tc_loop_should_end THEN "cooldown"
                    ELSE IF tc_exc = "raise" THEN "failed" ELSE "done")
    /\ UNCHANGED <<tc_loop_should_end, tc_num_timeouts, tc_timeout_event, tc_fails>>

\* `await asyncio.sleep(self.connect_timeout)` in the finally clause.
TcCooldown ==
    /\ UNCHANGED nonTc
    /\ tc_pc = "cooldown"
    /\ \/ /\ TcRaiseCancelled
          /\ TcGoto("cancelled")
       \/ /\ TcNotCancelled
          /\ TcGoto(LoopTop(tc_loop_should_end, tc_connected))
    /\ UNCHANGED <<tc_loop_should_end, tc_connected, tc_num_timeouts, tc_timeout_event, tc_fails, tc_exc>>

\* run_task.cancel() by the owner of the data client, once.
TcCancel ==
    /\ UNCHANGED nonTc
    /\ ~TcTaskEnded
    /\ ~tc_cancel_req
    /\ tc_cancelled_at = "none"
    /\ tc_cancel_req' = TRUE
    /\ UNCHANGED <<tc_pc, tc_loop_should_end, tc_connected, tc_num_timeouts, tc_timeout_event, tc_fails, tc_exc,
                   tc_connects, tc_reads, tc_cancelled_at>>

TcNext ==
    \/ TcStart \/ TcRunBegin \/ TcConnect \/ TcReadline \/ TcProcess \/ TcRateWait
    \/ TcDisconnect \/ TcCooldown \/ TcCancel

\* A client constructed with any accepted max_read_timeouts.
TcInit == TcIdle /\ RestTcIdle /\ dc_max \in 1..MaxReadTimeouts

SpecTc == TcInit /\ [][TcNext]_vars

\* The run task was cancelled while connecting, reading or processing.
TcCancelledInPass == tc_cancelled_at \in {"connect", "read", "process"}

\* C30: once the run task has been cancelled while connecting, reading or
\* processing a frame, it is on its way out: the CancelledError is pending
\* behind the rate limit, or the stop request is set and the task is in
\* disconnect() or has ended; and it calls neither connect() nor read_data()
\* again.
C30_CancelEndsRun ==
    /\ [](TcCancelledInPass =>
            \/ tc_pc = "rate_wait" /\ tc_exc = "cancel"
            \/ tc_loop_should_end /\ tc_pc \in {"disconnect", "done"})
    /\ [][TcCancelledInPass =>
            (tc_connects' = tc_connects /\ tc_reads' = tc_reads)]_vars

\* The step in which read_data returns to run().
TcReadReturned ==
    /\ tc_pc \in {"read", "process"}
    /\ tc_pc' = "rate_wait"
    /\ tc_exc' = "none"

\* The run task has given up: the exception is being re-raised.
TcGaveUp == tc_exc = "raise" \/ tc_pc = "failed"

\* C34: num_consecutive_read_timeouts is the number of passes that failed
\* since the last read_data that returned (or since run() began); a
\* read_data that returns resets it to 0 and clears the timeout event; the
\* run task gives up only with max_read_timeouts such failures counted.
C34_CounterIsFailuresSinceSuccess ==
    /\ [](tc_num_timeouts = tc_fails)
    /\ [][TcReadReturned => (tc_num_timeouts' = 0 /\ ~tc_timeout_event')]_vars
    /\ [](TcGaveUp => tc_fails >= dc_max)

\* The run task gave up at two failures on its third connect: a read_data
\* that returned after the first failure had reset the counter.
C34_Witness ==
    /\ tc_pc = "failed"
    /\ dc_max = 2
    /\ tc_num_timeouts = 2
    /\ tc_connects = 3
    /\ tc_timeout_event

(***************************************************************************)
(* Ld250Processor with time, counted in seconds: strike_timer_task is      *)
(* asyncio.sleep(safe_interval), which returns no earlier than             *)
(* safe_interval after the strike frame that created it.                   *)
(***************************************************************************)

\* A process_ld250_strike that leaves a running timer alone.
StrikeRestartsTimer_OnlyWhenDone(kind, timer) == kind = "strike" /\ timer # "pending"

\* process_ld250_strike: a running strike_timer_task is cancelled and a new
\* one is created, whatever the state of the old one.
StrikeRestartsTimer(kind, timer) == kind = "strike"

\* Less than safe_interval has passed since the most recent strike frame;
\* age is NoCall when there was none, else a one-tuple of the seconds.
WithinSafeInterval(age) == age # NoCall /\ age[1] < lt_safe_interval

\* process_telemetry(timestamp, response_code, sensor_data); for an empty
\* reading `sensor_data[0]` raises and nothing else happens.
LtProcessTelemetry ==
    /\ UNCHANGED nonLt
    /\ lt_frames < MaxLtFrames
    /\ lt_frames' = lt_frames + 1
    /\ \E kind \in LdFrameKinds :
          IF FirstItemRaises(kind)
          THEN UNCHANGED <<lt_timer, lt_timer_age, lt_strike_age, lt_log>>
          ELSE LET restart == StrikeRestartsTimer(kind, lt_timer)
                   timer == IF restart THEN "pending" ELSE lt_timer
               IN  /\ lt_timer' = timer
                   /\ lt_timer_age' = IF restart THEN 0 ELSE lt_timer_age
                   /\ lt_strike_age' = IF kind = "strike" THEN <<0>> ELSE lt_strike_age
                   /\ lt_log' = lt_log \o BranchWrites(kind) \o ClearWrites(timer)
    /\ UNCHANGED lt_safe_interval

\* One second passes. The ages stop counting at safe_interval.
LtTick ==
    /\ UNCHANGED nonLt
    /\ \/ lt_timer = "pending" /\ lt_timer_age < lt_safe_interval
       \/ WithinSafeInterval(lt_strike_age)
    /\ lt_timer_age' = IF lt_timer = "pending" /\ lt_timer_age < lt_safe_interval
                       THEN lt_timer_age + 1 ELSE lt_timer_age
    /\ lt_strike_age' = IF WithinSafeInterval(lt_strike_age)
                        THEN <<lt_strike_age[1] + 1>> ELSE lt_strike_age
    /\ UNCHANGED <<lt_safe_interval, lt_timer, lt_frames, lt_log>>

\* asyncio.sleep(safe_interval) of strike_timer_task returns: not before
\* safe_interval has passed, and possibly later than that.
LtTimerElapses ==
    /\ UNCHANGED nonLt
    /\ lt_timer = "pending"
    /\ lt_timer_age >= lt_safe_interval
    /\ lt_timer' = "elapsed"
    /\ UNCHANGED <<lt_safe_interval, lt_timer_age, lt_strike_age, lt_frames, lt_log>>

LtNext == LtProcessTelemetry \/ LtTick \/ LtTimerElapses

\* A processor configured with any safe_interval.
LtInit ==
    /\ lt_safe_interval \in 1..MaxSafeInterval
    /\ lt_timer = "initial_done"
    /\ lt_timer_age = 0
    /\ lt_strike_age = NoCall
    /\ lt_frames = 0
    /\ lt_log = << >>
    /\ RestLtIdle /\ dc_max = 1

SpecLt == LtInit /\ [][LtNext]_vars

\* C38: a process_telemetry call for a strike frame leaves a timer pending
\* that has slept 0 seconds, and no call writes the clear event when less
\* than safe_interval has passed since the most recent strike frame.
C38_NoClearWithinSafeInterval ==
    /\ [][(lt_frames' = lt_frames + 1 /\ "strike" \in Added(lt_log, lt_log')) =>
            (lt_timer' = "pending" /\ lt_timer_age' = 0)]_vars
    /\ [][WithinSafeInterval(lt_strike_age') =>
            "clear" \notin Added(lt_log, lt_log')]_vars

\* A second strike arrived while the timer of the first was pending, and
\* the clear event was written once the interval after the second had
\* passed.
C38_Witness ==
    /\ lt_log = <<"strike", "strike", "status", "sensorStatus", "clear">>
    /\ lt_safe_interval = 2
    /\ lt_strike_age = <<2>>

(***************************************************************************)
(* ControllerDataClient.stream_lock. One task is in the read loop          *)
(* (read_data), another calls run_command; both read frames from the same  *)
(* connection inside `async with self.stream_lock`.                        *)
(***************************************************************************)

\* A run_command that does not wait for the lock.
Acquirable_NoLock(holder) == TRUE

\* asyncio.Lock.acquire returns when the lock is not held.
Acquirable(holder) == holder = "none"

LkFramesLeft == lk_reader_frames + lk_cmd_frames < MaxLkFrames

\* The task in run_command is inside `async with self.stream_lock`.
CommandOutstanding == lk_cmd_pc \in {"writing", "reading"}

\* read_data leaves `async with self.stream_lock` (by the frame read, or by
\* the TimeoutError or ConnectionError of read_json): __aexit__ releases.
LkReaderExit ==
    /\ lk_reader_pc' = "idle"
    /\ lk_holder' = IF lk_holder = "reader" THEN "none" ELSE lk_holder

\* _basic_run_command leaves `async with self.stream_lock`: __aexit__
\* releases the lock, whether the block returned or raised.
LkCommandExit(how) ==
    /\ lk_cmd_pc' = "idle"
    /\ lk_cmd_end' = how
    /\ lk_holder' = IF lk_holder = "command" THEN "none" ELSE lk_holder

\* _basic_run_command has the lock: ConnectionError when not connected,
\* else `await self.client.write_json(data)`.
LkCommandEnter ==
    IF ~lk_connected
    THEN /\ lk_cmd_pc' = "idle"
         /\ lk_cmd_end' = "not_connected"
         /\ UNCHANGED lk_holder
    ELSE /\ lk_cmd_pc' = "writing"
         /\ lk_holder' = "command"
         /\ UNCHANGED lk_cmd_end

\* read_data is called: `async with self.stream_lock`, then read_json
\* under read_timeout.
LkReadData ==
    /\ UNCHANGED nonLk
    /\ lk_reader_pc = "idle"
    /\ LkFramesLeft
    /\ IF Acquirable(lk_holder)
       THEN lk_reader_pc' = "reading" /\ lk_holder' = "reader"
       ELSE lk_reader_pc' = "lock_wait" /\ UNCHANGED lk_holder
    /\ UNCHANGED <<lk_connected, lk_cmd_pc, lk_cmd_end, lk_reader_frames, lk_cmd_frames,
                   lk_cmds>>

\* The lock was released: read_data acquires it.
LkReaderAcquire ==
    /\ UNCHANGED nonLk
    /\ lk_reader_pc = "lock_wait"
    /\ Acquirable(lk_holder)
    /\ lk_reader_pc' = "reading"
    /\ lk_holder' = "reader"
    /\ UNCHANGED <<lk_connected, lk_cmd_pc, lk_cmd_end, lk_reader_frames, lk_cmd_frames,
                   lk_cmds>>

\* `data = await self.client.read_json()` of read_data returns a frame, or
\* raises (read_timeout expired, connection lost).
LkReaderRead ==
    /\ UNCHANGED nonLk
    /\ lk_reader_pc = "reading"
    /\ \/ /\ lk_connected
          /\ LkFramesLeft
          /\ lk_reader_frames' = lk_reader_frames + 1
       \/ UNCHANGED lk_reader_frames
    /\ LkReaderExit
    /\ UNCHANGED <<lk_connected, lk_cmd_pc, lk_cmd_end, lk_cmd_frames, lk_cmds>>

\* run_command is called: asyncio.timeout(connect_timeout) around
\* _basic_run_command, which starts with `async with self.stream_lock`.
LkRunCommand ==
    /\ UNCHANGED nonLk
    /\ lk_cmd_pc = "idle"
    /\ lk_cmds < MaxLkCommands
    /\ lk_cmds' = lk_cmds + 1
    /\ IF Acquirable(lk_holder)
       THEN LkCommandEnter
       ELSE lk_cmd_pc' = "lock_wait" /\ UNCHANGED <<lk_holder, lk_cmd_end>>
    /\ UNCHANGED <<lk_connected, lk_reader_pc, lk_reader_frames, lk_cmd_frames>>

\* The lock was released: _basic_run_command acquires it.
LkCommandAcquire ==
    /\ UNCHANGED nonLk
    /\ lk_cmd_pc = "lock_wait"
    /\ Acquirable(lk_holder)
    /\ LkCommandEnter
    /\ UNCHANGED <<lk_connected, lk_reader_pc, lk_reader_frames, lk_cmd_frames, lk_cmds>>

\* connect_timeout expires: the task is cancelled where it is suspended,
\* waiting for the lock or inside the locked block, and run_command raises
\* TimeoutError.
LkCommandTimeout ==
    /\ UNCHANGED nonLk
    /\ lk_cmd_pc \in {"lock_wait", "writing", "reading"}
    /\ LkCommandExit("timeout")
    /\ UNCHANGED <<lk_connected, lk_reader_pc, lk_reader_frames, lk_cmd_frames, lk_cmds>>

\* `await self.client.write_json(data)` returns, or raises.
LkCommandWrite ==
    /\ UNCHANGED nonLk
    /\ lk_cmd_pc = "writing"
    /\ \/ /\ lk_connected
          /\ lk_cmd_pc' = "reading"
          /\ UNCHANGED <<lk_holder, lk_cmd_end>>
       \/ LkCommandExit("error")
    /\ UNCHANGED <<lk_connected, lk_reader_pc, lk_reader_frames, lk_cmd_frames, lk_cmds>>

\* The `while True` loop of _basic_run_command: ConnectionError when not
\* connected, else `data = await self.client.read_json()`: a response ends
\* the exchange (OK: return, otherwise RuntimeError), any other frame is
\* ignored and the loop reads on.
LkCommandRead ==
    /\ UNCHANGED nonLk
    /\ lk_cmd_pc = "reading"
    /\ IF ~lk_connected
       THEN LkCommandExit("error") /\ UNCHANGED lk_cmd_frames
       ELSE /\ LkFramesLeft
            /\ lk_cmd_frames' = lk_cmd_frames + 1
            /\ \/ LkCommandExit("ok")
               \/ LkCommandExit("error")
               \/ UNCHANGED <<lk_cmd_pc, lk_cmd_end, lk_holder>>
    /\ UNCHANGED <<lk_connected, lk_reader_pc, lk_reader_frames, lk_cmds>>

\* The connection is lost.
LkConnectionLost ==
    /\ UNCHANGED nonLk
    /\ lk_connected
    /\ lk_connected' = FALSE
    /\ UNCHANGED <<lk_holder, lk_reader_pc, lk_cmd_pc, lk_cmd_end, lk_reader_frames,
                   lk_cmd_frames, lk_cmds>>

LkNext ==
    \/ LkReadData \/ LkReaderAcquire \/ LkReaderRead
    \/ LkRunCommand \/ LkCommandAcquire \/ LkCommandTimeout
    \/ LkCommandWrite \/ LkCommandRead \/ LkConnectionLost

LkInit == LkIdle /\ RestLkIdle /\ dc_max = 1

SpecLk == LkInit /\ [][LkNext]_vars

\* C39: the command exchange and the frame read of read_data exclude each
\* other: the two tasks are never both inside the locked block, read_data
\* reads no frame while a command is outstanding, and when the exchange has
\* ended (by response, error or timeout) the command task does not hold
\* the lock.
C39_StreamLockExcludes ==
    /\ [](~(CommandOutstanding /\ lk_reader_pc = "reading"))
    /\ [][CommandOutstanding => lk_reader_frames' = lk_reader_frames]_vars
    /\ [](lk_cmd_pc = "idle" => lk_holder # "command")

\* read_data is waiting for the lock while the command exchange, which has
\* read a frame that was not its response, is reading on.
C39_Witness ==
    /\ lk_reader_pc = "lock_wait"
    /\ lk_cmd_pc = "reading"
    /\ lk_holder = "command"
    /\ lk_cmd_frames >= 1

====
